---- MODULE Spec2Model ----
(***************************************************************************)
(* daywalker: a day-by-day market simulation.                              *)
(*                                                                         *)
(*   accounting.py   AssetAccounting   FIFO tax-lot ledger of one symbol   *)
(*   market_data.py  TradeableAsset    price bars, censored view, auctions *)
(*   broker.py       Broker            cash, constraints, ledgers          *)
(*                   BrokerInterface   the facade handed to the policy     *)
(*   market.py       Market.run        the day-stepping driver             *)
(*                                                                         *)
(* Money is counted in ticks of 1/10000 dollar, so that every amount the   *)
(* code computes in floating point (prices, 1% of a notional, half a cent  *)
(* per share) is an integer here; floating-point rounding is not modelled. *)
(* Dates are day numbers; day 0 is a Monday.                               *)
(***************************************************************************)
EXTENDS Integers, Sequences, FiniteSets, TLC

VARIABLES
    aa,         \* SpecLedger: one AssetAccounting object
    aa_log,     \* SpecLedger: history of the trades the ledger processed
    aa_ret,     \* SpecLedger: outcome of the last call on the ledger
    ta,         \* SpecAsset: the price bars (df) of one TradeableAsset
    ta_ret,     \* SpecAsset: the last call on the asset and what it returned
    assets,     \* Broker.__assets: symbol -> price bars
    broker,     \* the Broker object
    initial_cash, \* the initial_cash the Broker was constructed with
    ncalls,     \* number of calls made on the broker (orders are tagged with it)
    realized,   \* history: every gain a ledger of the broker has realized
    ret,        \* the last call on the broker or the facade and its outcome
    bi,         \* the BrokerInterface (facade) that Market.run hands to the policy
    market,     \* Market.run: its arguments, its local dt and where it stands
    twin,       \* SpecTwin: the same run on prices that differ in today's open
    default_assets, \* the dict that is the default value of Broker.__init__'s assets
    brokers     \* SpecShared: the Broker objects constructed so far

ledger_vars == <<aa, aa_log, aa_ret>>

asset_vars == <<ta, ta_ret>>

broker_vars == <<assets, broker, initial_cash, ncalls, realized, ret>>

market_vars == <<bi, market, twin>>

shared_vars == <<default_assets, brokers>>

vars == <<aa, aa_log, aa_ret, ta, ta_ret, assets, broker, initial_cash, ncalls,
          realized, ret, bi, market, twin, default_assets, brokers>>

----------------------------------------------------------------------------
(* Bounds of the model *)

MaxSize == 2            \* order and trade sizes range over -MaxSize..MaxSize
MaxLedgerTrades == 4    \* trades processed by the ledger of SpecLedger
MaxDay == 2             \* the price series of SpecAsset have dates in 0..MaxDay
MaxCalls == 3           \* calls made on the broker in SpecBroker
MaxBrokers == 2         \* Broker objects constructed in SpecShared
MaxOrders == 2          \* orders the policy submits in one run of the driver

----------------------------------------------------------------------------
(* Small helpers *)

\* Python's None, and a value that is present: an optional value is a
\* sequence of length 0 or 1
None == <<>>

Some(x) == <<x>>

\* No exception was raised by a call
NoExc == "none"

Abs(x) == IF x < 0 THEN -x ELSE x

\* numpy.sign
sign(x) == IF x > 0 THEN 1 ELSE IF x < 0 THEN -1 ELSE 0

Min(a, b) == IF a <= b THEN a ELSE b

Max(a, b) == IF a >= b THEN a ELSE b

\* Sum of a sequence of integers, in append order
RECURSIVE SumSeq(_)
SumSeq(s) == IF s = <<>> THEN 0 ELSE Head(s) + SumSeq(Tail(s))

----------------------------------------------------------------------------
(* accounting.py: AssetAccounting *)

\* A mutation of CostBasis: the lot keeps the size without its sign
CostBasis_unsigned(price, size, symbol, meta) ==
    [price |-> price, size |-> Abs(size), symbol |-> symbol, meta |-> meta]

CostBasis(price, size, symbol, meta) ==
    [price |-> price, size |-> size, symbol |-> symbol, meta |-> meta]

CapitalGainOrLoss(open_price, close_price, size, symbol, open_meta, close_meta) ==
    [open_price |-> open_price, close_price |-> close_price, size |-> size,
     symbol |-> symbol, open_meta |-> open_meta, close_meta |-> close_meta]

\* AssetAccounting.__init__
AssetAccounting(symbol) ==
    [owned |-> <<>>, quantity |-> 0, symbol |-> symbol, gains |-> <<>>]

\* A mutation of first_index: the newest lot is matched first (LIFO)
last_index(owned) == Len(owned)

\* The position of the lot the matching loop looks at: self.__owned[0]
first_index(owned) == 1

\* A mutation of do_trade_loop: a trade as large as the oldest lot is
\* treated as a partial close
RECURSIVE do_trade_loop_keep_closed(_, _, _, _, _)
do_trade_loop_keep_closed(st, price, size, symbol, meta) ==
    IF sign(size) # 0 /\ Len(st.owned) > 0
    THEN LET k == first_index(st.owned)
             first == st.owned[k]
         IN  IF sign(first.size) = sign(size)
             THEN [st EXCEPT !.owned = Append(@, CostBasis(price, size, symbol, meta))]
             ELSE IF Abs(first.size) >= Abs(size)
             THEN [owned |-> [st.owned EXCEPT ![k] =
                                CostBasis(first.price, first.size + size, symbol, first.meta)],
                   gains |-> Append(st.gains,
                                CapitalGainOrLoss(first.price, price, -1 * size, symbol,
                                                  first.meta, meta))]
             ELSE do_trade_loop_keep_closed(
                    [owned |-> SubSeq(st.owned, 1, k - 1)
                                 \o SubSeq(st.owned, k + 1, Len(st.owned)),
                     gains |-> Append(st.gains,
                                CapitalGainOrLoss(first.price, price, first.size, symbol,
                                                  first.meta, meta))],
                    price, size + first.size, symbol, meta)
    ELSE IF sign(size) # 0
         THEN [st EXCEPT !.owned = Append(@, CostBasis(price, size, symbol, meta))]
         ELSE st

\* A mutation of do_trade_loop: a partial close realizes the whole lot
RECURSIVE do_trade_loop_whole_lot(_, _, _, _, _)
do_trade_loop_whole_lot(st, price, size, symbol, meta) ==
    IF sign(size) # 0 /\ Len(st.owned) > 0
    THEN LET k == first_index(st.owned)
             first == st.owned[k]
         IN  IF sign(first.size) = sign(size)
             THEN [st EXCEPT !.owned = Append(@, CostBasis(price, size, symbol, meta))]
             ELSE IF Abs(first.size) > Abs(size)
             THEN [owned |-> [st.owned EXCEPT ![k] =
                                CostBasis(first.price, first.size + size, symbol, first.meta)],
                   gains |-> Append(st.gains,
                                CapitalGainOrLoss(first.price, price, first.size, symbol,
                                                  first.meta, meta))]
             ELSE do_trade_loop_whole_lot(
                    [owned |-> SubSeq(st.owned, 1, k - 1)
                                 \o SubSeq(st.owned, k + 1, Len(st.owned)),
                     gains |-> Append(st.gains,
                                CapitalGainOrLoss(first.price, price, first.size, symbol,
                                                  first.meta, meta))],
                    price, size + first.size, symbol, meta)
    ELSE IF sign(size) # 0
         THEN [st EXCEPT !.owned = Append(@, CostBasis(price, size, symbol, meta))]
         ELSE st

\* The while loop of __do_trade and the append after it, on a state
\* st = [owned, gains] with `size` still to be matched.
RECURSIVE do_trade_loop(_, _, _, _, _)
do_trade_loop(st, price, size, symbol, meta) ==
    IF sign(size) # 0 /\ Len(st.owned) > 0
    THEN LET k == first_index(st.owned)
             first == st.owned[k]
         IN  IF sign(first.size) = sign(size)
             THEN [st EXCEPT !.owned = Append(@, CostBasis(price, size, symbol, meta))]
             ELSE IF Abs(first.size) > Abs(size)
             THEN [owned |-> [st.owned EXCEPT ![k] =
                                CostBasis(first.price, first.size + size, symbol, first.meta)],
                   gains |-> Append(st.gains,
                                CapitalGainOrLoss(first.price, price, -1 * size, symbol,
                                                  first.meta, meta))]
             ELSE do_trade_loop(
                    [owned |-> SubSeq(st.owned, 1, k - 1)
                                 \o SubSeq(st.owned, k + 1, Len(st.owned)),
                     gains |-> Append(st.gains,
                                CapitalGainOrLoss(first.price, price, first.size, symbol,
                                                  first.meta, meta))],
                    price, size + first.size, symbol, meta)
    ELSE IF sign(size) # 0
         THEN [st EXCEPT !.owned = Append(@, CostBasis(price, size, symbol, meta))]
         ELSE st

\* A mutation of new_quantity: the running sum ignores the sign of the trade
new_quantity_unsigned(quantity, size) == quantity + Abs(size)

\* self.__quantity += size
new_quantity(quantity, size) == quantity + size

\* A mutation of do_trade: the size is not asserted to be non-zero
do_trade_unchecked(a, price, size, meta) ==
    LET st == do_trade_loop([owned |-> a.owned, gains |-> a.gains],
                            price, size, a.symbol, meta)
    IN  [aa |-> [a EXCEPT !.quantity = new_quantity(a.quantity, size),
                          !.owned = st.owned,
                          !.gains = st.gains],
         exc |-> NoExc]

\* AssetAccounting.__do_trade on a ledger a; the result is [aa, exc]
do_trade(a, price, size, meta) ==
    IF size = 0
    THEN [aa |-> a, exc |-> "AssertionError"]
    ELSE LET st == do_trade_loop([owned |-> a.owned, gains |-> a.gains],
                                 price, size, a.symbol, meta)
         IN  [aa |-> [a EXCEPT !.quantity = new_quantity(a.quantity, size),
                               !.owned = st.owned,
                               !.gains = st.gains],
              exc |-> NoExc]

\* AssetAccounting.buy
buy(a, price, size, meta) == do_trade(a, price, size, meta)

\* AssetAccounting.sell
sell(a, price, size, meta) == do_trade(a, price, -1 * size, meta)

\* The broker's variables in the specifications that have no broker
BrokerUnused ==
    /\ assets = <<>>
    /\ broker = <<>>
    /\ initial_cash = 0
    /\ ncalls = 0
    /\ realized = <<>>
    /\ ret = [op |-> "none"]
    /\ bi = <<>>
    /\ market = <<>>
    /\ twin = <<>>
    /\ default_assets = {}
    /\ brokers = <<>>

----------------------------------------------------------------------------
(* market_data.py: TradeableAsset.  The data frame df is a function from   *)
(* its index (the dates that have a bar, unique and ascending) to the bar  *)
(* of that date.                                                           *)

\* pandas' NaT: the index maximum when no date qualifies (an absent date)
NaT == <<>>

\* One row of df: the columns the code reads, and splitFactor
Bar(open, close, divCash, splitFactor) ==
    [open |-> open, close |-> close, divCash |-> divCash, splitFactor |-> splitFactor]

\* The largest element of a non-empty set of dates
MaxOf(S) == CHOOSE x \in S : \A y \in S : y <= x

\* self.df[self.df.index <= dt].index.max(): NaT when no date is <= dt
latest_date(df, dt) ==
    LET le == {d \in DOMAIN df : d <= dt}
    IN  IF le = {} THEN NaT ELSE Some(MaxOf(le))

\* A mutation of censored_rows: the row of the cutoff date is kept
censored_rows_inclusive(df, cutoff) ==
    IF cutoff = NaT THEN <<>>
    ELSE [d \in {x \in DOMAIN df : x <= cutoff[1]} |-> df[d]]

\* self.df[self.df.index < dt]: no date compares below NaT
censored_rows(df, cutoff) ==
    IF cutoff = NaT THEN <<>>
    ELSE [d \in {x \in DOMAIN df : x < cutoff[1]} |-> df[d]]

\* TradeableAsset.get_censored; the result is [exc, rows, open_price]
get_censored(df, dt, after_open) ==
    LET cutoff == latest_date(df, dt)
        censored == censored_rows(df, cutoff)
    IN  IF after_open
        THEN IF cutoff = NaT
             THEN [exc |-> "KeyError", rows |-> <<>>, open_price |-> None]
             ELSE [exc |-> NoExc, rows |-> censored,
                   open_price |-> Some(df[cutoff[1]].open)]
        ELSE [exc |-> NoExc, rows |-> censored, open_price |-> None]

\* TradeableAsset.trading_days
trading_days(df) == DOMAIN df

\* The Trade as __handle_auction constructs it; the timestamp dt_report is
\* the date with the time of day of the auction.
Trade(price, size, symbol, date, commission, meta) ==
    [price |-> price, size |-> size, symbol |-> symbol, date |-> date,
     commission |-> commission, meta |-> meta]

\* dt.replace(hour=..., minute=...): the open precedes the close of a day
dt_report(dt, kind) == [day |-> dt, at |-> kind]

\* A mutation of auction_price: the close auction is priced at the open
auction_price_open_only(df, kind, dt) == df[dt].open

\* open_price = self.df[kind][dt], for a date that has a bar
auction_price(df, kind, dt) == IF kind = "open" THEN df[dt].open ELSE df[dt].close

\* A mutation of buy_clears: a limit equal to the auction price does not fill
buy_clears_strict(open_price, price) == open_price < price

\* A mutation of buy_clears: a buy is not compared with its limit
buy_clears_always(open_price, price) == TRUE

\* if (open_price <= price)
buy_clears(open_price, price) == open_price <= price

\* A mutation of sell_clears: a sell is not compared with its limit
sell_clears_always(open_price, price) == TRUE

\* if (open_price >= price)
sell_clears(open_price, price) == open_price >= price

\* TradeableAsset.__handle_auction; the result is [exc, trade]
handle_auction(df, symbol, dt, price, size, is_buy, kind, meta) ==
    IF dt \notin DOMAIN df
    THEN [exc |-> "KeyError", trade |-> None]
    ELSE LET open_price == auction_price(df, kind, dt)
         IN  IF is_buy
             THEN IF buy_clears(open_price, price)
                  THEN [exc |-> NoExc,
                        trade |-> Some(Trade(open_price, size, symbol,
                                             dt_report(dt, kind), 0, meta))]
                  ELSE [exc |-> NoExc, trade |-> None]
             ELSE IF sell_clears(open_price, price)
                  THEN [exc |-> NoExc,
                        trade |-> Some(Trade(open_price, -1 * size, symbol,
                                             dt_report(dt, kind), 0, meta))]
                  ELSE [exc |-> NoExc, trade |-> None]

\* TradeableAsset.limit_on_open
ta_limit_on_open(df, symbol, dt, price, size, is_buy, meta) ==
    handle_auction(df, symbol, dt, price, size, is_buy, "open", meta)

\* TradeableAsset.limit_on_close
ta_limit_on_close(df, symbol, dt, price, size, is_buy, meta) ==
    handle_auction(df, symbol, dt, price, size, is_buy, "close", meta)

----------------------------------------------------------------------------
(* broker.py: Broker.  A broker b is a record of the object's fields:      *)
(*   cash, margin, allow_short, trades, dividends, capital_gains (the      *)
(*   archive of torn-down ledgers), asset_accounting (the dict of ledgers, *)
(*   a sequence in insertion order), class (which commission applies).     *)
(* dfs (the variable `assets`) maps each symbol to its price bars.         *)

\* Broker.__init__
Broker(class, cash0, margin, allow_short) ==
    [class |-> class, cash |-> cash0, margin |-> margin,
     allow_short |-> allow_short, trades |-> <<>>, dividends |-> <<>>,
     asset_accounting |-> <<>>, capital_gains |-> <<>>]

\* symbol in self.__asset_accounting
has_ledger(b, symbol) ==
    \E i \in 1..Len(b.asset_accounting) : b.asset_accounting[i].symbol = symbol

ledger_index(b, symbol) ==
    CHOOSE i \in 1..Len(b.asset_accounting) : b.asset_accounting[i].symbol = symbol

\* self.__asset_accounting[symbol], for a symbol that has a ledger
ledger_of(b, symbol) == b.asset_accounting[ledger_index(b, symbol)]

\* Broker.__assets_owned: the keys of the dict, in insertion order
assets_owned(b) == [i \in 1..Len(b.asset_accounting) |-> b.asset_accounting[i].symbol]

\* Broker.__get_asset_accounting: the broker after the call (the ledger of
\* the symbol is created when the dict does not hold it)
get_asset_accounting(b, symbol) ==
    IF has_ledger(b, symbol) THEN b
    ELSE [b EXCEPT !.asset_accounting = Append(@, AssetAccounting(symbol))]

\* A mutation of allow_margin: the margin limit is not enforced
allow_margin_any(b, final_cash) == TRUE

\* Broker.allow_margin
allow_margin(b, final_cash) == final_cash >= (-1 * b.margin)

\* A mutation of allow_position: the short-selling flag is ignored
allow_position_any(b, symbol, size) == TRUE

\* Broker.allow_position
allow_position(b, symbol, size) == (size >= 0) \/ b.allow_short

\* A mutation of commission: the size is taken with its sign
commission_signed(b, price, size, is_buy) ==
    IF b.class = "InteractiveBrokers"
    THEN Min(Max(10000, 50 * size), (size * price) \div 100)
    ELSE 0

\* Broker.commission and InteractiveBrokers.commission, in ticks:
\* min(max(1.0, 0.005*abs(size)), 0.01*abs(size)*price)
commission(b, price, size, is_buy) ==
    IF b.class = "InteractiveBrokers"
    THEN Min(Max(10000, 50 * Abs(size)), (Abs(size) * price) \div 100)
    ELSE 0

\* Trade.with_commission
with_commission(trade, c) == [trade EXCEPT !.commission = c]

\* Trade.cash_cost of a trade that carries its commission
cash_cost(trade) == trade.price * trade.size + trade.commission

\* The metadata record_trade stores with a lot: the trade's metadata, its
\* timestamp and its commission per share (a fraction: commission / |size|)
lot_meta(trade) ==
    [tag |-> trade.meta, date |-> trade.date,
     commission_per_share |-> <<trade.commission, Abs(trade.size)>>]

\* A mutation of record_trade: the symbol of the trade is not compared
record_trade_unchecked(a, trade) ==
    do_trade(a, trade.price, trade.size, lot_meta(trade))

\* AssetAccounting.record_trade; the result is [aa, exc].  A trade of
\* another symbol is refused, any other trade goes to __do_trade.
record_trade(a, trade) ==
    IF trade.symbol # a.symbol
    THEN [aa |-> a, exc |-> "SymbolMismatchError"]
    ELSE do_trade(a, trade.price, trade.size, lot_meta(trade))

\* The broker with the ledger of `symbol` replaced by a
set_ledger(b, symbol, a) ==
    [b EXCEPT !.asset_accounting[ledger_index(b, symbol)] = a]

\* A mutation of limit_on_auction: the cash pays the commission, but the
\* trade recorded and reported is the one the matcher returned
limit_on_auction_late_commission(b, dfs, symbol, dt, price, size, is_buy, meta, kind) ==
    LET signed_size == IF is_buy THEN size ELSE -1 * size
        b1 == get_asset_accounting(b, symbol)
        final_position == ledger_of(b1, symbol).quantity + signed_size
        final_cash == IF is_buy THEN b1.cash - price * size ELSE b1.cash + price * size
    IN  IF ~ allow_position(b1, symbol, final_position)
        THEN [b |-> b1, exc |-> NoExc, trade |-> None, callback |-> <<>>]
        ELSE IF ~ allow_margin(b1, final_cash)
        THEN [b |-> b1, exc |-> NoExc, trade |-> None, callback |-> <<>>]
        ELSE
        LET m == IF kind = "open"
                 THEN ta_limit_on_open(dfs[symbol], symbol, dt, price, size, is_buy, meta)
                 ELSE ta_limit_on_close(dfs[symbol], symbol, dt, price, size, is_buy, meta)
        IN  IF m.exc # NoExc
            THEN [b |-> b1, exc |-> m.exc, trade |-> None, callback |-> <<>>]
            ELSE IF m.trade = None
            THEN [b |-> b1, exc |-> NoExc, trade |-> None, callback |-> <<>>]
            ELSE
            LET t0 == m.trade[1]
                trade == with_commission(t0, commission(b1, t0.price, t0.size, t0.size > 0))
                b2 == [b1 EXCEPT !.cash = @ - cash_cost(trade)]
                rec == record_trade(ledger_of(b2, symbol), t0)
            IN  IF rec.exc # NoExc
                THEN [b |-> b2, exc |-> rec.exc, trade |-> None, callback |-> <<>>]
                ELSE [b |-> [set_ledger(b2, symbol, rec.aa) EXCEPT
                                !.trades = Append(@, t0)],
                      exc |-> NoExc, trade |-> Some(trade), callback |-> <<t0>>]

\* A mutation of limit_on_auction: the matcher is consulted before the
\* position and margin constraints are tested
limit_on_auction_match_first(b, dfs, symbol, dt, price, size, is_buy, meta, kind) ==
    LET signed_size == IF is_buy THEN size ELSE -1 * size
        b1 == get_asset_accounting(b, symbol)
        final_position == ledger_of(b1, symbol).quantity + signed_size
        final_cash == IF is_buy THEN b1.cash - price * size ELSE b1.cash + price * size
        m == IF kind = "open"
             THEN ta_limit_on_open(dfs[symbol], symbol, dt, price, size, is_buy, meta)
             ELSE ta_limit_on_close(dfs[symbol], symbol, dt, price, size, is_buy, meta)
    IN  IF m.exc # NoExc
        THEN [b |-> b1, exc |-> m.exc, trade |-> None, callback |-> <<>>]
        ELSE IF ~ allow_position(b1, symbol, final_position)
        THEN [b |-> b1, exc |-> NoExc, trade |-> None, callback |-> <<>>]
        ELSE IF ~ allow_margin(b1, final_cash)
        THEN [b |-> b1, exc |-> NoExc, trade |-> None, callback |-> <<>>]
        ELSE IF m.trade = None
        THEN [b |-> b1, exc |-> NoExc, trade |-> None, callback |-> <<>>]
        ELSE
        LET t0 == m.trade[1]
            trade == with_commission(t0, commission(b1, t0.price, t0.size, t0.size > 0))
            b2 == [b1 EXCEPT !.cash = @ - cash_cost(trade)]
            rec == record_trade(ledger_of(b2, symbol), trade)
        IN  IF rec.exc # NoExc
            THEN [b |-> b2, exc |-> rec.exc, trade |-> None, callback |-> <<>>]
            ELSE [b |-> [set_ledger(b2, symbol, rec.aa) EXCEPT
                            !.trades = Append(@, trade)],
                  exc |-> NoExc, trade |-> Some(trade), callback |-> <<trade>>]

\* A mutation of limit_on_auction: a fill whose cost with commission takes the
\* cash below -margin is refused
limit_on_auction_recheck(b, dfs, symbol, dt, price, size, is_buy, meta, kind) ==
    LET signed_size == IF is_buy THEN size ELSE -1 * size
        b1 == get_asset_accounting(b, symbol)
        final_position == ledger_of(b1, symbol).quantity + signed_size
        final_cash == IF is_buy THEN b1.cash - price * size ELSE b1.cash + price * size
    IN  IF ~ allow_position(b1, symbol, final_position)
        THEN [b |-> b1, exc |-> NoExc, trade |-> None, callback |-> <<>>]
        ELSE IF ~ allow_margin(b1, final_cash)
        THEN [b |-> b1, exc |-> NoExc, trade |-> None, callback |-> <<>>]
        ELSE
        LET m == IF kind = "open"
                 THEN ta_limit_on_open(dfs[symbol], symbol, dt, price, size, is_buy, meta)
                 ELSE ta_limit_on_close(dfs[symbol], symbol, dt, price, size, is_buy, meta)
        IN  IF m.exc # NoExc
            THEN [b |-> b1, exc |-> m.exc, trade |-> None, callback |-> <<>>]
            ELSE IF m.trade = None
            THEN [b |-> b1, exc |-> NoExc, trade |-> None, callback |-> <<>>]
            ELSE
            LET t0 == m.trade[1]
                trade == with_commission(t0, commission(b1, t0.price, t0.size, t0.size > 0))
                b2 == [b1 EXCEPT !.cash = @ - cash_cost(trade)]
                rec == record_trade(ledger_of(b2, symbol), trade)
            IN  IF ~ allow_margin(b2, b2.cash)
                THEN [b |-> b1, exc |-> NoExc, trade |-> None, callback |-> <<>>]
                ELSE IF rec.exc # NoExc
                THEN [b |-> b2, exc |-> rec.exc, trade |-> None, callback |-> <<>>]
                ELSE [b |-> [set_ledger(b2, symbol, rec.aa) EXCEPT
                                !.trades = Append(@, trade)],
                      exc |-> NoExc, trade |-> Some(trade), callback |-> <<trade>>]

\* Broker.__limit_on_auction.  The result is [b, exc, trade, callback]:
\* the broker after the call, the exception raised if any, the value
\* returned and the trades handed to the trade callback.
limit_on_auction(b, dfs, symbol, dt, price, size, is_buy, meta, kind) ==
    LET signed_size == IF is_buy THEN size ELSE -1 * size
        b1 == get_asset_accounting(b, symbol)
        final_position == ledger_of(b1, symbol).quantity + signed_size
        final_cash == IF is_buy THEN b1.cash - price * size ELSE b1.cash + price * size
    IN  IF ~ allow_position(b1, symbol, final_position)
        THEN [b |-> b1, exc |-> NoExc, trade |-> None, callback |-> <<>>]
        ELSE IF ~ allow_margin(b1, final_cash)
        THEN [b |-> b1, exc |-> NoExc, trade |-> None, callback |-> <<>>]
        ELSE
        LET m == IF kind = "open"
                 THEN ta_limit_on_open(dfs[symbol], symbol, dt, price, size, is_buy, meta)
                 ELSE ta_limit_on_close(dfs[symbol], symbol, dt, price, size, is_buy, meta)
        IN  IF m.exc # NoExc
            THEN [b |-> b1, exc |-> m.exc, trade |-> None, callback |-> <<>>]
            ELSE IF m.trade = None
            THEN [b |-> b1, exc |-> NoExc, trade |-> None, callback |-> <<>>]
            ELSE
            LET t0 == m.trade[1]
                trade == with_commission(t0, commission(b1, t0.price, t0.size, t0.size > 0))
                b2 == [b1 EXCEPT !.cash = @ - cash_cost(trade)]
                rec == record_trade(ledger_of(b2, symbol), trade)
            IN  IF rec.exc # NoExc
                THEN [b |-> b2, exc |-> rec.exc, trade |-> None, callback |-> <<>>]
                ELSE [b |-> [set_ledger(b2, symbol, rec.aa) EXCEPT
                                !.trades = Append(@, trade)],
                      exc |-> NoExc, trade |-> Some(trade), callback |-> <<trade>>]

\* A mutation of update_asset_owned: the ledger is dropped without its gains
\* being archived
update_asset_owned_no_archive(b, symbol) ==
    LET a == ledger_of(b, symbol)
    IN  IF a.quantity = 0
        THEN [b EXCEPT !.asset_accounting =
                          SubSeq(@, 1, ledger_index(b, symbol) - 1)
                            \o SubSeq(@, ledger_index(b, symbol) + 1, Len(@))]
        ELSE b

\* Broker.__update_asset_owned, called after a fill (the ledger exists)
update_asset_owned(b, symbol) ==
    LET a == ledger_of(b, symbol)
    IN  IF a.quantity = 0
        THEN [b EXCEPT !.capital_gains = @ \o a.gains,
                       !.asset_accounting =
                          SubSeq(@, 1, ledger_index(b, symbol) - 1)
                            \o SubSeq(@, ledger_index(b, symbol) + 1, Len(@))]
        ELSE b

\* Broker.limit_on_open / Broker.limit_on_close after their call of
\* __limit_on_auction, which returned r: if t: self.__update_asset_owned(symbol)
after_auction(r, symbol) ==
    IF r.exc = NoExc /\ r.trade # None
    THEN [r EXCEPT !.b = update_asset_owned(r.b, symbol)]
    ELSE r

\* Broker.limit_on_open / Broker.limit_on_close: `kind` is "open" or "close"
broker_limit(b, dfs, symbol, dt, price, size, is_buy, meta, kind) ==
    after_auction(limit_on_auction(b, dfs, symbol, dt, price, size, is_buy, meta, kind),
                  symbol)

\* The rows of all the sequences of a sequence, concatenated (pd.concat)
RECURSIVE concat(_)
concat(ss) == IF ss = <<>> THEN <<>> ELSE Head(ss) \o concat(Tail(ss))

\* Broker.positions: the open lots of all ledgers
positions(b) ==
    concat([i \in 1..Len(b.asset_accounting) |-> b.asset_accounting[i].owned])

\* A mutation of gain: the commissions are not subtracted
gain_gross(row) ==
    LET oc == row.open_meta.commission_per_share
        cc == row.close_meta.commission_per_share
    IN  <<(row.close_price - row.open_price) * oc[2] * cc[2] * row.size, oc[2] * cc[2]>>

\* One value of the column result['gain'] of Broker.capital_gains:
\* (close_price - open_price - close_commission_per_share
\*  - open_commission_per_share) * size.  The per-share commissions are the
\* fractions oc[1] / oc[2] and cc[1] / cc[2]; the value is the fraction
\* <<numerator, denominator>> over the denominator oc[2] * cc[2].
gain(row) ==
    LET oc == row.open_meta.commission_per_share
        cc == row.close_meta.commission_per_share
    IN  <<((row.close_price - row.open_price) * oc[2] * cc[2]
             - cc[1] * oc[2] - oc[1] * cc[2]) * row.size,
          oc[2] * cc[2]>>

\* Broker.capital_gains: the gains of the live ledgers, then the archive,
\* and the derived column `gain`, kept beside the rows.  The result is
\* [exc, rows, gain]: on an empty frame the column lookup raises KeyError.
capital_gains(b) ==
    LET rows == concat([i \in 1..Len(b.asset_accounting) |-> b.asset_accounting[i].gains])
                  \o b.capital_gains
    IN  IF rows = <<>>
        THEN [exc |-> "KeyError", rows |-> <<>>, gain |-> <<>>]
        ELSE [exc |-> NoExc, rows |-> rows,
              gain |-> [i \in 1..Len(rows) |-> gain(rows[i])]]

\* A mutation of dividend_rows: one record for the oldest lot only
dividend_rows_first_lot(owned, div, dt) ==
    <<[symbol |-> owned[1].symbol, shares |-> owned[1].size, meta |-> owned[1].meta,
       div_per_share |-> div, amount |-> div * owned[1].size, ex_date |-> dt]>>

\* Broker.trades: DictableToDataframe.get moves the buffered rows to the
\* end of the frame it keeps and returns that frame; b.trades is the frame
\* followed by the buffer
trades(b) == b.trades

\* Broker.dividends: DataframeBuffer.get, likewise
dividends(b) == b.dividends

\* The distribution records of one symbol's lots for a dividend `div`
dividend_rows(owned, div, dt) ==
    [i \in 1..Len(owned) |->
        [symbol |-> owned[i].symbol, shares |-> owned[i].size, meta |-> owned[i].meta,
         div_per_share |-> div, amount |-> div * owned[i].size, ex_date |-> dt]]

amounts(rows) == [i \in 1..Len(rows) |-> rows[i].amount]

\* A mutation of credit_dividends: the records are kept, the cash is not paid
credit_dividends_no_cash(b, rows) == [b EXCEPT !.dividends = @ \o rows]

\* self.__cash += owned['amount'].sum(); self.__dividends.append(owned)
credit_dividends(b, rows) ==
    [b EXCEPT !.cash = @ + SumSeq(amounts(rows)), !.dividends = @ \o rows]

\* Broker.execute_dividends: the loop over the symbols owned, from the
\* i-th on
RECURSIVE execute_dividends_from(_, _, _, _)
execute_dividends_from(b, dfs, dt, i) ==
    IF i > Len(b.asset_accounting) THEN b
    ELSE LET symbol == b.asset_accounting[i].symbol
             df == dfs[symbol]
             owned == b.asset_accounting[i].owned
         IN  IF dt \notin DOMAIN df
             THEN execute_dividends_from(b, dfs, dt, i + 1)
             ELSE IF df[dt].divCash = 0
             THEN execute_dividends_from(b, dfs, dt, i + 1)
             ELSE IF Len(owned) = 0
             THEN execute_dividends_from(b, dfs, dt, i + 1)
             ELSE execute_dividends_from(
                    credit_dividends(b, dividend_rows(owned, df[dt].divCash, dt)),
                    dfs, dt, i + 1)

\* Broker.execute_dividends
execute_dividends(b, dfs, dt) == execute_dividends_from(b, dfs, dt, 1)

\* Broker.historical_prices
historical_prices(dfs, symbol, dt, after_open) ==
    get_censored(dfs[symbol], dt, after_open)

\* Broker.last_price; the result is [exc, price]
last_price(dfs, symbol, dt, is_open) ==
    LET h == historical_prices(dfs, symbol, dt, is_open)
    IN  IF h.exc # NoExc THEN [exc |-> h.exc, price |-> None]
        ELSE IF h.open_price = None
        THEN IF DOMAIN h.rows = {}
             THEN [exc |-> "IndexError", price |-> None]
             ELSE [exc |-> NoExc, price |-> Some(h.rows[MaxOf(DOMAIN h.rows)].close)]
        ELSE [exc |-> NoExc, price |-> h.open_price]

\* Broker.positions_marked_to_market; the result is [exc, rows]
positions_marked_to_market(b, dfs, dt, is_open) ==
    LET pos == positions(b)
        lp(i) == last_price(dfs, pos[i].symbol, dt, is_open)
    IN  IF \E i \in 1..Len(pos) : lp(i).exc # NoExc
        THEN [exc |-> lp(CHOOSE i \in 1..Len(pos) :
                            /\ lp(i).exc # NoExc
                            /\ \A j \in 1..(i - 1) : lp(j).exc = NoExc).exc,
              rows |-> <<>>]
        ELSE [exc |-> NoExc,
              rows |-> [i \in 1..Len(pos) |->
                          [symbol |-> pos[i].symbol, size |-> pos[i].size,
                           meta |-> pos[i].meta,
                           current_value |-> lp(i).price[1],
                           market_value |-> pos[i].size * lp(i).price[1]]]]

----------------------------------------------------------------------------
(* broker.py: BrokerInterface, the facade.  A facade f is a record of the  *)
(* object's fields: dt, after_open, trades_to_report, positions,           *)
(* positions_marked_to_market.  Its trade callback appends every trade the *)
(* broker records to trades_to_report.                                     *)

\* BrokerInterface.__init__
BrokerInterface(dt, after_open) ==
    [dt |-> dt, after_open |-> after_open, trades_to_report |-> <<>>,
     positions |-> <<>>, positions_marked_to_market |-> <<>>]

\* BrokerInterface.set_date; the result is [f, b, exc]
set_date(f, b, dfs, dt, after_open) ==
    LET f1 == [f EXCEPT !.dt = dt, !.after_open = after_open, !.positions = positions(b)]
        pm == positions_marked_to_market(b, dfs, dt, after_open)
    IN  IF pm.exc # NoExc
        THEN [f |-> f1, b |-> b, exc |-> pm.exc]
        ELSE [f |-> [f1 EXCEPT !.positions_marked_to_market = pm.rows],
              b |-> IF after_open = FALSE THEN execute_dividends(b, dfs, dt) ELSE b,
              exc |-> NoExc]

\* BrokerInterface.get_unreported_items; the result is [f, items]
get_unreported_items(f) ==
    [f |-> [f EXCEPT !.trades_to_report = <<>>], items |-> f.trades_to_report]

\* A call of the broker made by the facade, which returned r: the facade
\* returns nothing, the trade callback has run.  The result is
\* [f, b, exc, trade], trade being what the broker returned.
forwarded(f, r) ==
    [f |-> [f EXCEPT !.trades_to_report = @ \o r.callback],
     b |-> r.b, exc |-> r.exc, trade |-> r.trade]

\* BrokerInterface.limit_on_open
bi_limit_on_open(f, b, dfs, symbol, price, size, is_buy, meta) ==
    IF ~ f.after_open
    THEN forwarded(f, broker_limit(b, dfs, symbol, f.dt, price, size, is_buy, meta, "open"))
    ELSE [f |-> f, b |-> b, exc |-> "InvalidOrderException", trade |-> None]

\* A mutation of bi_limit_on_close: the phase is not tested
bi_limit_on_close_any_phase(f, b, dfs, symbol, price, size, is_buy, meta) ==
    forwarded(f, broker_limit(b, dfs, symbol, f.dt, price, size, is_buy, meta, "close"))

\* BrokerInterface.limit_on_close
bi_limit_on_close(f, b, dfs, symbol, price, size, is_buy, meta) ==
    IF f.after_open
    THEN forwarded(f, broker_limit(b, dfs, symbol, f.dt, price, size, is_buy, meta, "close"))
    ELSE [f |-> f, b |-> b, exc |-> "InvalidOrderException", trade |-> None]

\* What the policy can read through the facade: cash(), positions(),
\* positions_marked_to_market(), historical_prices(symbol),
\* last_price(symbol) and get_unreported_items()
observations(f, b, dfs) ==
    [cash |-> b.cash,
     positions |-> f.positions,
     positions_marked_to_market |-> f.positions_marked_to_market,
     historical_prices |-> [symbol \in DOMAIN dfs |->
                              historical_prices(dfs, symbol, f.dt, f.after_open)],
     last_price |-> [symbol \in DOMAIN dfs |->
                       last_price(dfs, symbol, f.dt, f.after_open)],
     unreported_items |-> f.trades_to_report]

----------------------------------------------------------------------------
(* market.py: Market.run *)

\* Day 0 is a Monday: 0..4 are Monday to Friday, 5 and 6 the weekend
weekday(d) == d % 7

\* dt + pd.offsets.BDay(): the next business day after dt
next_business_day(d) ==
    IF weekday(d) = 4 THEN d + 3
    ELSE IF weekday(d) = 5 THEN d + 2
    ELSE d + 1

----------------------------------------------------------------------------
(* SpecAsset: one TradeableAsset over any price series with dates in       *)
(* 0..MaxDay, queried and probed with any sequence of calls.               *)

BarPrices == {100, 200}

LimitPrices == {100, 150, 200}

Bars == {Bar(o, c, 0, 1) : o \in BarPrices, c \in BarPrices}

\* Every price series: a non-empty set of dates, one bar for each
AllSeries == UNION {[D -> Bars] : D \in (SUBSET (0..MaxDay)) \ {{}}}

InitAsset ==
    /\ ta \in AllSeries
    /\ ta_ret = [op |-> "none"]
    /\ aa = AssetAccounting("acc")
    /\ aa_log = <<>>
    /\ aa_ret = NoExc
    /\ BrokerUnused

TAGetCensored(dt, after_open) ==
    /\ ta_ret' = [op |-> "get_censored", dt |-> dt, after_open |-> after_open,
                  ret |-> get_censored(ta, dt, after_open)]
    /\ UNCHANGED <<shared_vars, ta, ledger_vars, broker_vars, market_vars>>

TALimitOnOpen(dt, price, size, is_buy) ==
    /\ ta_ret' = [op |-> "limit_on_open", dt |-> dt, price |-> price, size |-> size,
                  is_buy |-> is_buy,
                  ret |-> ta_limit_on_open(ta, "acc", dt, price, size, is_buy, <<>>)]
    /\ UNCHANGED <<shared_vars, ta, ledger_vars, broker_vars, market_vars>>

TALimitOnClose(dt, price, size, is_buy) ==
    /\ ta_ret' = [op |-> "limit_on_close", dt |-> dt, price |-> price, size |-> size,
                  is_buy |-> is_buy,
                  ret |-> ta_limit_on_close(ta, "acc", dt, price, size, is_buy, <<>>)]
    /\ UNCHANGED <<shared_vars, ta, ledger_vars, broker_vars, market_vars>>

NextAsset ==
    \/ \E dt \in (-1)..(MaxDay + 1), after_open \in BOOLEAN : TAGetCensored(dt, after_open)
    \/ \E dt \in 0..MaxDay, p \in LimitPrices, s \in (-MaxSize)..MaxSize, is_buy \in BOOLEAN :
          TALimitOnOpen(dt, p, s, is_buy)
    \/ \E dt \in 0..MaxDay, p \in LimitPrices, s \in (-MaxSize)..MaxSize, is_buy \in BOOLEAN :
          TALimitOnClose(dt, p, s, is_buy)

SpecAsset == InitAsset /\ [][NextAsset]_vars

----------------------------------------------------------------------------
(* SpecLedger: any sequence of buys and sells on one ledger.  The policy   *)
(* tags the n-th call with meta = n, so every lot names the trade that     *)
(* opened it.                                                              *)

LedgerPrices == {100, 200}

LedgerSizes == (-MaxSize)..MaxSize

InitLedger ==
    /\ aa = AssetAccounting("acc")
    /\ aa_log = <<>>
    /\ aa_ret = NoExc
    /\ ta = <<>>
    /\ ta_ret = [op |-> "none"]
    /\ BrokerUnused

AABuy(price, size) ==
    /\ Len(aa_log) < MaxLedgerTrades
    /\ LET r == buy(aa, price, size, Len(aa_log) + 1)
       IN  /\ aa' = r.aa
           /\ aa_ret' = r.exc
           /\ aa_log' = IF r.exc = NoExc
                        THEN Append(aa_log, [price |-> price, size |-> size])
                        ELSE aa_log
    /\ UNCHANGED <<shared_vars, asset_vars, broker_vars, market_vars>>

AASell(price, size) ==
    /\ Len(aa_log) < MaxLedgerTrades
    /\ LET r == sell(aa, price, size, Len(aa_log) + 1)
       IN  /\ aa' = r.aa
           /\ aa_ret' = r.exc
           /\ aa_log' = IF r.exc = NoExc
                        THEN Append(aa_log, [price |-> price, size |-> -1 * size])
                        ELSE aa_log
    /\ UNCHANGED <<shared_vars, asset_vars, broker_vars, market_vars>>

NextLedger ==
    \/ \E p \in LedgerPrices, s \in LedgerSizes : AABuy(p, s)
    \/ \E p \in LedgerPrices, s \in LedgerSizes : AASell(p, s)

SpecLedger == InitLedger /\ [][NextLedger]_vars

----------------------------------------------------------------------------
(* SpecRecord: any sequence of trades, of the ledger's symbol or another,  *)
(* presented to one ledger with record_trade.                              *)

RecordSymbols == {"acc", "xyz"}

AARecordTrade(price, size, symbol) ==
    /\ Len(aa_log) < MaxLedgerTrades
    /\ LET trade == Trade(price, size, symbol, dt_report(0, "open"), 0, Len(aa_log) + 1)
           r == record_trade(aa, trade)
       IN  /\ aa' = r.aa
           /\ aa_ret' = r.exc
           /\ aa_log' = IF r.exc = NoExc
                        THEN Append(aa_log, [price |-> price, size |-> size])
                        ELSE aa_log
    /\ UNCHANGED <<shared_vars, asset_vars, broker_vars, market_vars>>

NextRecord ==
    \E price \in LedgerPrices, size \in LedgerSizes, symbol \in RecordSymbols :
        AARecordTrade(price, size, symbol)

SpecRecord == InitLedger /\ [][NextRecord]_vars

----------------------------------------------------------------------------
(* The market every broker of the model trades in.  acc has a bar on each  *)
(* of the days 0, 1, 2 and pays a dividend on day 1; xyz has no bar on     *)
(* day 1 (a holiday in its data) and pays a dividend on day 2.  The bar of *)
(* acc for day 2 has splitFactor 2.                                        *)

Symbols == {"acc", "xyz"}

TheAssets ==
    [symbol \in Symbols |->
        IF symbol = "acc"
        THEN (0 :> Bar(10000, 20000, 0, 1)) @@ (1 :> Bar(20000, 10000, 2500, 1))
               @@ (2 :> Bar(10000, 10000, 0, 2))
        ELSE (0 :> Bar(20000, 20000, 0, 1)) @@ (2 :> Bar(10000, 20000, 5000, 1))]

Days == 0..2

OrderPrices == {10000, 20000}

OrderSizes == {1, 2}

\* The brokers of the model: the default broker without margin or short
\* selling, and the discount broker with a margin and short selling
BrokerConfigs ==
    {[class |-> "Broker", margin |-> 0, allow_short |-> FALSE],
     [class |-> "InteractiveBrokers", margin |-> 20000, allow_short |-> TRUE]}

StartingCash == 40000

----------------------------------------------------------------------------
(* SpecBroker: any sequence of calls made directly on a Broker.            *)

NoCall == [op |-> "none"]

OrderCall(op, symbol, dt, price, size, is_buy, r) ==
    [op |-> op, symbol |-> symbol, dt |-> dt, price |-> price, size |-> size,
     is_buy |-> is_buy, exc |-> r.exc, trade |-> r.trade]

\* The gains realized by a call that took the ledger of `symbol` from
\* broker b0 to the broker b1 that __limit_on_auction left
gains_realized(b0, b1, symbol) ==
    LET before == IF has_ledger(b0, symbol) THEN ledger_of(b0, symbol).gains ELSE <<>>
        after == IF has_ledger(b1, symbol) THEN ledger_of(b1, symbol).gains ELSE <<>>
    IN  SubSeq(after, Len(before) + 1, Len(after))

InitBroker ==
    /\ assets = TheAssets
    /\ initial_cash = StartingCash
    /\ \E c \in BrokerConfigs :
          broker = Broker(c.class, StartingCash, c.margin, c.allow_short)
    /\ ncalls = 0
    /\ realized = <<>>
    /\ ret = NoCall
    /\ aa = AssetAccounting("acc")
    /\ aa_log = <<>>
    /\ aa_ret = NoExc
    /\ ta = <<>>
    /\ ta_ret = [op |-> "none"]
    /\ bi = <<>>
    /\ market = <<>>
    /\ twin = <<>>
    /\ default_assets = {}
    /\ brokers = <<>>

BrokerOrder(kind, symbol, dt, price, size, is_buy) ==
    /\ ncalls < MaxCalls
    /\ LET inner == limit_on_auction(broker, assets, symbol, dt, price, size, is_buy,
                                     ncalls + 1, kind)
           r == after_auction(inner, symbol)
       IN  /\ broker' = r.b
           /\ ret' = OrderCall("limit_on_" \o kind, symbol, dt, price, size, is_buy, r)
           /\ realized' = realized \o gains_realized(broker, inner.b, symbol)
    /\ ncalls' = ncalls + 1
    /\ UNCHANGED <<shared_vars, assets, initial_cash, ledger_vars, asset_vars, market_vars>>

BrokerLimitOnOpen(symbol, dt, price, size, is_buy) ==
    BrokerOrder("open", symbol, dt, price, size, is_buy)

BrokerLimitOnClose(symbol, dt, price, size, is_buy) ==
    BrokerOrder("close", symbol, dt, price, size, is_buy)

BrokerExecuteDividends(dt) ==
    /\ ncalls < MaxCalls
    /\ broker' = execute_dividends(broker, assets, dt)
    /\ ret' = [op |-> "execute_dividends", dt |-> dt, exc |-> NoExc]
    /\ ncalls' = ncalls + 1
    /\ UNCHANGED <<shared_vars, assets, initial_cash, realized, ledger_vars, asset_vars,
                   market_vars>>

\* A call of one of the accumulation queries: positions(),
\* capital_gains(), trades(), dividends()
QueryCall(op, exc, rows) == [op |-> op, exc |-> exc, rows |-> rows]

BrokerQuery(r) ==
    /\ ncalls < MaxCalls
    /\ ret' = r
    /\ ncalls' = ncalls + 1
    /\ UNCHANGED <<shared_vars, assets, broker, initial_cash, realized, ledger_vars,
                   asset_vars,
                   market_vars>>

BrokerPositions == BrokerQuery(QueryCall("positions", NoExc, positions(broker)))

BrokerCapitalGains ==
    BrokerQuery([op |-> "capital_gains", exc |-> capital_gains(broker).exc,
                 rows |-> capital_gains(broker).rows,
                 gain |-> capital_gains(broker).gain])

BrokerTrades == BrokerQuery(QueryCall("trades", NoExc, trades(broker)))

BrokerDividends == BrokerQuery(QueryCall("dividends", NoExc, dividends(broker)))

NextBroker ==
    \/ \E symbol \in Symbols, dt \in Days, price \in OrderPrices, size \in OrderSizes,
          is_buy \in BOOLEAN : BrokerLimitOnOpen(symbol, dt, price, size, is_buy)
    \/ \E symbol \in Symbols, dt \in Days, price \in OrderPrices, size \in OrderSizes,
          is_buy \in BOOLEAN : BrokerLimitOnClose(symbol, dt, price, size, is_buy)
    \/ \E dt \in Days : BrokerExecuteDividends(dt)
    \/ BrokerPositions
    \/ BrokerCapitalGains
    \/ BrokerTrades
    \/ BrokerDividends

SpecBroker == InitBroker /\ [][NextBroker]_vars

----------------------------------------------------------------------------
(* SpecMargin: the calls of SpecBroker on a discount broker that has no    *)
(* margin, so that the commission is the only thing that can take the cash  *)
(* below the margin limit.                                                  *)

MarginConfigs ==
    {[class |-> "InteractiveBrokers", margin |-> 0, allow_short |-> FALSE]}

InitMargin ==
    /\ assets = TheAssets
    /\ initial_cash = StartingCash
    /\ \E c \in MarginConfigs :
          broker = Broker(c.class, StartingCash, c.margin, c.allow_short)
    /\ ncalls = 0
    /\ realized = <<>>
    /\ ret = NoCall
    /\ aa = AssetAccounting("acc")
    /\ aa_log = <<>>
    /\ aa_ret = NoExc
    /\ ta = <<>>
    /\ ta_ret = [op |-> "none"]
    /\ bi = <<>>
    /\ market = <<>>
    /\ twin = <<>>
    /\ default_assets = {}
    /\ brokers = <<>>

SpecMargin == InitMargin /\ [][NextBroker]_vars

----------------------------------------------------------------------------
(* SpecDefault: orders and dividend runs on the default broker (no         *)
(* commission, no margin, no short selling), with every non-negative size   *)
(* and price, 0 included.                                                   *)

DefaultConfigs == {[class |-> "Broker", margin |-> 0, allow_short |-> FALSE]}

DefaultSizes == 0..MaxSize

DefaultPrices == {0} \cup OrderPrices

InitDefault ==
    /\ assets = TheAssets
    /\ initial_cash = StartingCash
    /\ \E c \in DefaultConfigs :
          broker = Broker(c.class, StartingCash, c.margin, c.allow_short)
    /\ ncalls = 0
    /\ realized = <<>>
    /\ ret = NoCall
    /\ aa = AssetAccounting("acc")
    /\ aa_log = <<>>
    /\ aa_ret = NoExc
    /\ ta = <<>>
    /\ ta_ret = [op |-> "none"]
    /\ bi = <<>>
    /\ market = <<>>
    /\ twin = <<>>
    /\ default_assets = {}
    /\ brokers = <<>>

NextDefault ==
    \/ \E symbol \in Symbols, dt \in Days, price \in DefaultPrices, size \in DefaultSizes,
          is_buy \in BOOLEAN : BrokerLimitOnOpen(symbol, dt, price, size, is_buy)
    \/ \E symbol \in Symbols, dt \in Days, price \in DefaultPrices, size \in DefaultSizes,
          is_buy \in BOOLEAN : BrokerLimitOnClose(symbol, dt, price, size, is_buy)
    \/ \E dt \in Days : BrokerExecuteDividends(dt)

SpecDefault == InitDefault /\ [][NextDefault]_vars

----------------------------------------------------------------------------
(* SpecShared: several brokers are constructed, with or without an assets  *)
(* argument, and assets are added to them.  A dict is a function from its   *)
(* keys to its values.  default_assets is the one dict object that is the   *)
(* default value of the parameter `assets` of Broker.__init__; a broker of  *)
(* this specification is [own, assets, days_with_data]: `own` tells whether *)
(* self.__assets is the dict passed as argument (its content is `assets`)   *)
(* or the default dict.                                                     *)

EmptyDict == [k \in {} |-> k]

\* d[key] = value
put(d, key, value) ==
    [k \in DOMAIN d \cup {key} |-> IF k = key THEN value ELSE d[k]]

\* The content of self.__assets of broker b when the default dict is d
assets_of(b, d) == IF b.own THEN b.assets ELSE d

\* The days of all the assets of the dict d
days_of(d) == UNION {trading_days(d[k]) : k \in DOMAIN d}

\* Broker.__init__: self.__assets = assets;  self.__days_with_data is a new
\* set filled from self.__assets.  `explicit` tells whether the caller
\* passed assets (a new empty dict) or left the default.
new_broker(d, explicit) ==
    [own |-> explicit, assets |-> EmptyDict,
     days_with_data |-> IF explicit THEN {} ELSE days_of(d)]

\* Broker.add_asset; the result is [b, d]: the broker and the default dict
\* after the call
add_asset(b, d, symbol, df) ==
    [b |-> [b EXCEPT !.assets = IF b.own THEN put(@, symbol, df) ELSE @,
                     !.days_with_data = @ \cup trading_days(df)],
     d |-> IF b.own THEN d ELSE put(d, symbol, df)]

\* Broker.trading_day
trading_day(b, dt) == dt \in b.days_with_data

\* symbol in self.__assets: the test of allow_position, and what decides
\* whether self.__assets[symbol] of an order or a query succeeds
has_asset(b, d, symbol) == symbol \in DOMAIN assets_of(b, d)

InitShared ==
    /\ default_assets = EmptyDict
    /\ brokers = <<>>
    /\ assets = TheAssets
    /\ broker = <<>>
    /\ initial_cash = StartingCash
    /\ ncalls = 0
    /\ realized = <<>>
    /\ ret = NoCall
    /\ aa = AssetAccounting("acc")
    /\ aa_log = <<>>
    /\ aa_ret = NoExc
    /\ ta = <<>>
    /\ ta_ret = [op |-> "none"]
    /\ bi = <<>>
    /\ market = <<>>
    /\ twin = <<>>

\* Broker(initial_cash) or Broker(initial_cash, {})
SharedNewBroker(explicit) ==
    /\ Len(brokers) < MaxBrokers
    /\ brokers' = Append(brokers, new_broker(default_assets, explicit))
    /\ ret' = [op |-> "Broker", broker |-> Len(brokers) + 1]
    /\ UNCHANGED <<default_assets, assets, broker, initial_cash, ncalls, realized,
                   ledger_vars, asset_vars, market_vars>>

\* brokers[i].add_asset(symbol, asset)
SharedAddAsset(i, symbol) ==
    /\ i \in 1..Len(brokers)
    /\ LET r == add_asset(brokers[i], default_assets, symbol, assets[symbol])
       IN  /\ brokers' = [brokers EXCEPT ![i] = r.b]
           /\ default_assets' = r.d
    /\ ret' = [op |-> "add_asset", broker |-> i, symbol |-> symbol]
    /\ UNCHANGED <<assets, broker, initial_cash, ncalls, realized,
                   ledger_vars, asset_vars, market_vars>>

NextShared ==
    \/ \E explicit \in BOOLEAN : SharedNewBroker(explicit)
    \/ \E i \in 1..MaxBrokers, symbol \in Symbols : SharedAddAsset(i, symbol)

SpecShared == InitShared /\ [][NextShared]_vars

----------------------------------------------------------------------------
(* SpecCommission: the commission of either broker class for any price and *)
(* any signed size.  The prices are multiples of 100 ticks (one cent), so  *)
(* that 1% of a notional is a whole number of ticks.                       *)

CommissionPrices == {5000, 10000, 175400, 1000000}

CommissionSizes == {-1000, -350, -10, -1, 1, 10, 350, 1000}

InitCommission ==
    /\ InitBroker

CommissionCall(price, size, is_buy) ==
    /\ ret' = [op |-> "commission", price |-> price, size |-> size, is_buy |-> is_buy,
               value |-> commission(broker, price, size, is_buy)]
    /\ UNCHANGED <<shared_vars, assets, broker, initial_cash, ncalls, realized, ledger_vars,
                   asset_vars, market_vars>>

NextCommission ==
    \E price \in CommissionPrices, size \in CommissionSizes, is_buy \in BOOLEAN :
        CommissionCall(price, size, is_buy)

SpecCommission == InitCommission /\ [][NextCommission]_vars

----------------------------------------------------------------------------
(* Spec: Market.run drives the facade day by day and calls the policy      *)
(* twice a day; the policy is any sequence of facade calls.  `market` is   *)
(* the frame of Market.run: start_date, end_date, the local dt, the items  *)
(* handed to the running callback and pc, the place the run has reached:   *)
(*   "start"      run() has not been called                                *)
(*   "loop"       at the test of the while loop                            *)
(*   "pre_open"   inside strategy.pre_open                                 *)
(*   "pre_close"  inside strategy.pre_close                                *)
(*   "done"       run() has returned                                       *)
(*   "aborted"    an exception has left run()                              *)
(* market.visits logs the calls of the strategy made so far.               *)
(* The tabular export of the unreported trades is not modelled: the        *)
(* callback is handed the trades themselves.                               *)
(* In SpecTwin (market.track) every pre_open phase is run a second time on *)
(* prices that differ from `assets` in the open of the current day only:   *)
(* twin holds the prices, the broker and the facade of that second run.    *)

StartDates == {0}

EndDate == 2

\* A call of the strategy as the log market.visits keeps it: the callback,
\* the dt it is given and the date and phase of the facade it is given
Visit(callback, f) ==
    [callback |-> callback, dt |-> market.dt, bi_dt |-> f.dt,
     after_open |-> f.after_open]

InPolicy == market.pc \in {"pre_open", "pre_close"}

\* Price series that differ from dfs in exactly the open of one bar of day dt
alternatives(dfs, dt) ==
    {[dfs EXCEPT ![symbol][dt].open = price] :
        <<symbol, price>> \in {x \in Symbols \X OrderPrices :
                                 /\ dt \in DOMAIN dfs[x[1]]
                                 /\ dfs[x[1]][dt].open # x[2]}}

InitMarket(track) ==
    /\ assets = TheAssets
    /\ initial_cash = StartingCash
    /\ \E c \in BrokerConfigs :
          broker = Broker(c.class, StartingCash, c.margin, c.allow_short)
    /\ ncalls = 0
    /\ realized = <<>>
    /\ ret = NoCall
    /\ bi = <<>>
    /\ \E start_date \in StartDates :
          market = [pc |-> "start", start_date |-> start_date, end_date |-> EndDate,
                    dt |-> start_date, handed |-> <<>>, visits |-> <<>>,
                    track |-> track]
    /\ twin = <<>>
    /\ default_assets = {}
    /\ brokers = <<>>
    /\ aa = AssetAccounting("acc")
    /\ aa_log = <<>>
    /\ aa_ret = NoExc
    /\ ta = <<>>
    /\ ta_ret = [op |-> "none"]

Init == InitMarket(FALSE)

InitTwin == InitMarket(TRUE)

\* dt = self.start_date; bi = BrokerInterface(self.broker, dt, after_open=False)
RunStart ==
    /\ market.pc = "start"
    /\ bi' = Some(BrokerInterface(market.start_date, FALSE))
    /\ market' = [market EXCEPT !.pc = "loop", !.dt = market.start_date]
    /\ UNCHANGED <<shared_vars, assets, broker, initial_cash, ncalls, realized, ret, twin,
                   ledger_vars, asset_vars>>

\* while (dt <= self.end_date): bi.set_date(dt, False);
\* bi.get_unreported_items(); self.strategy.pre_open(...) is entered
LoopEnter ==
    /\ market.pc = "loop"
    /\ market.dt <= market.end_date
    /\ LET sd == set_date(bi[1], broker, assets, market.dt, FALSE)
           gu == get_unreported_items(sd.f)
       IN  /\ broker' = sd.b
           /\ IF sd.exc # NoExc
              THEN /\ bi' = Some(sd.f)
                   /\ market' = [market EXCEPT !.pc = "aborted"]
                   /\ ret' = [op |-> "set_date", dt |-> market.dt, exc |-> sd.exc]
                   /\ twin' = <<>>
              ELSE /\ bi' = Some(gu.f)
                   /\ market' = [market EXCEPT !.pc = "pre_open", !.handed = gu.items,
                                                !.visits = Append(@, Visit("pre_open", gu.f))]
                   /\ ret' = [op |-> "set_date", dt |-> market.dt, exc |-> NoExc]
                   /\ IF market.track /\ alternatives(assets, market.dt) # {}
                      THEN \E dfs \in alternatives(assets, market.dt) :
                             LET sd2 == set_date(bi[1], broker, dfs, market.dt, FALSE)
                             IN  twin' = Some([dfs |-> dfs, b |-> sd2.b,
                                               f |-> get_unreported_items(sd2.f).f])
                      ELSE twin' = <<>>
    /\ UNCHANGED <<shared_vars, assets, initial_cash, ncalls, realized, ledger_vars,
                   asset_vars>>

\* the test of the while loop fails: run() returns
LoopExit ==
    /\ market.pc = "loop"
    /\ ~ (market.dt <= market.end_date)
    /\ market' = [market EXCEPT !.pc = "done"]
    /\ UNCHANGED <<shared_vars, assets, broker, initial_cash, ncalls, realized, ret, bi, twin,
                   ledger_vars, asset_vars>>

\* pre_open returns: bi.set_date(dt, True); bi.get_unreported_items();
\* self.strategy.pre_close(...) is entered
PreOpenReturns ==
    /\ market.pc = "pre_open"
    /\ LET sd == set_date(bi[1], broker, assets, market.dt, TRUE)
           gu == get_unreported_items(sd.f)
       IN  /\ broker' = sd.b
           /\ ret' = [op |-> "set_date", dt |-> market.dt, exc |-> sd.exc]
           /\ IF sd.exc # NoExc
              THEN /\ bi' = Some(sd.f)
                   /\ market' = [market EXCEPT !.pc = "aborted"]
              ELSE /\ bi' = Some(gu.f)
                   /\ market' = [market EXCEPT !.pc = "pre_close", !.handed = gu.items,
                                                !.visits = Append(@, Visit("pre_close", gu.f))]
    /\ twin' = <<>>
    /\ UNCHANGED <<shared_vars, assets, initial_cash, ncalls, realized, ledger_vars,
                   asset_vars>>

\* pre_close returns: dt = dt + pd.offsets.BDay()
PreCloseReturns ==
    /\ market.pc = "pre_close"
    /\ market' = [market EXCEPT !.pc = "loop", !.dt = next_business_day(market.dt)]
    /\ UNCHANGED <<shared_vars, assets, broker, initial_cash, ncalls, realized, ret, bi, twin,
                   ledger_vars, asset_vars>>

\* The policy submits an order through the facade; it tags its n-th order
\* with meta = n
PolicyOrder(kind, symbol, price, size, is_buy) ==
    /\ InPolicy
    /\ ncalls < MaxOrders
    /\ LET call(f, b, dfs) ==
               IF kind = "open"
               THEN bi_limit_on_open(f, b, dfs, symbol, price, size, is_buy, ncalls + 1)
               ELSE bi_limit_on_close(f, b, dfs, symbol, price, size, is_buy, ncalls + 1)
           r == call(bi[1], broker, assets)
           inner == limit_on_auction(broker, assets, symbol, bi[1].dt, price, size,
                                     is_buy, ncalls + 1, kind)
       IN  /\ bi' = Some(r.f)
           /\ broker' = r.b
           /\ ret' = OrderCall("limit_on_" \o kind, symbol, bi[1].dt, price, size,
                               is_buy, r)
           /\ realized' = IF r.exc = "InvalidOrderException"
                          THEN realized
                          ELSE realized \o gains_realized(broker, inner.b, symbol)
           /\ twin' = IF twin = <<>>
                      THEN twin
                      ELSE LET r2 == call(twin[1].f, twin[1].b, twin[1].dfs)
                           IN  Some([twin[1] EXCEPT !.b = r2.b, !.f = r2.f])
    /\ ncalls' = ncalls + 1
    /\ UNCHANGED <<shared_vars, assets, initial_cash, market, ledger_vars, asset_vars>>

PolicyLimitOnOpen(symbol, price, size, is_buy) ==
    PolicyOrder("open", symbol, price, size, is_buy)

PolicyLimitOnClose(symbol, price, size, is_buy) ==
    PolicyOrder("close", symbol, price, size, is_buy)

\* The policy drains the buffer of unreported trades itself
PolicyGetUnreportedItems ==
    /\ InPolicy
    /\ bi[1].trades_to_report # <<>>
    /\ LET gu == get_unreported_items(bi[1])
       IN  /\ bi' = Some(gu.f)
           /\ ret' = [op |-> "get_unreported_items", items |-> gu.items, exc |-> NoExc]
    /\ twin' = IF twin = <<>>
               THEN twin
               ELSE Some([twin[1] EXCEPT !.f = get_unreported_items(twin[1].f).f])
    /\ UNCHANGED <<shared_vars, assets, broker, initial_cash, ncalls, realized, market,
                   ledger_vars, asset_vars>>

\* The policy does not catch the exception its last call raised: the
\* exception leaves the callback and run()
PolicyRaises ==
    /\ InPolicy
    /\ ret.op \in {"limit_on_open", "limit_on_close"}
    /\ ret.exc # NoExc
    /\ market' = [market EXCEPT !.pc = "aborted"]
    /\ twin' = <<>>
    /\ UNCHANGED <<shared_vars, assets, broker, initial_cash, ncalls, realized, ret, bi,
                   ledger_vars, asset_vars>>

Next ==
    \/ RunStart
    \/ LoopEnter
    \/ LoopExit
    \/ PreOpenReturns
    \/ PreCloseReturns
    \/ \E symbol \in Symbols, price \in OrderPrices, size \in OrderSizes,
          is_buy \in BOOLEAN : PolicyLimitOnOpen(symbol, price, size, is_buy)
    \/ \E symbol \in Symbols, price \in OrderPrices, size \in OrderSizes,
          is_buy \in BOOLEAN : PolicyLimitOnClose(symbol, price, size, is_buy)
    \/ PolicyGetUnreportedItems
    \/ PolicyRaises

Spec == Init /\ [][Next]_vars

SpecTwin == InitTwin /\ [][Next]_vars

----------------------------------------------------------------------------
(* SpecWeekend: the run of Spec with a start_date that is the Saturday or  *)
(* the Sunday before day 0.                                                 *)

WeekendStartDates == {-2, -1}

InitWeekend ==
    /\ assets = TheAssets
    /\ initial_cash = StartingCash
    /\ \E c \in BrokerConfigs :
          broker = Broker(c.class, StartingCash, c.margin, c.allow_short)
    /\ ncalls = 0
    /\ realized = <<>>
    /\ ret = NoCall
    /\ bi = <<>>
    /\ \E start_date \in WeekendStartDates :
          market = [pc |-> "start", start_date |-> start_date, end_date |-> EndDate,
                    dt |-> start_date, handed |-> <<>>, visits |-> <<>>,
                    track |-> FALSE]
    /\ twin = <<>>
    /\ default_assets = {}
    /\ brokers = <<>>
    /\ aa = AssetAccounting("acc")
    /\ aa_log = <<>>
    /\ aa_ret = NoExc
    /\ ta = <<>>
    /\ ta_ret = [op |-> "none"]

SpecWeekend == InitWeekend /\ [][Next]_vars

----------------------------------------------------------------------------
(* Claims about the ledger, checked under SpecLedger *)

\* The gains the last step appended to the ledger's stream
NewGains == SubSeq(aa'.gains, Len(aa.gains) + 1, Len(aa'.gains))

\* C2 (FIFO ordering): in every trade the ledger processes, the j-th gain it
\* realizes is taken against the j-th oldest lot of the queue and carries that
\* lot's own open price and metadata; every lot but the last one touched is
\* closed in full, the last one touched is either closed or reduced and stays
\* at the head, and all younger lots keep their place and their content.
C2_FIFO ==
    [][aa_log' # aa_log =>
        LET old == aa.owned
            new == aa'.owned
            n == Len(NewGains)
            kept == IF n > 0 /\ \E i \in 1..Len(new) : new[i].meta = old[n].meta
                    THEN 1 ELSE 0
        IN  /\ n <= Len(old)
            /\ \A j \in 1..n :
                  /\ NewGains[j].open_price = old[j].price
                  /\ NewGains[j].open_meta = old[j].meta
                  /\ NewGains[j].close_meta = Len(aa_log')
            /\ \A j \in 1..(n - 1) :
                  ~ \E i \in 1..Len(new) : new[i].meta = old[j].meta
            /\ kept = 1 =>
                  /\ new[1].meta = old[n].meta
                  /\ new[1].price = old[n].price
                  /\ Abs(new[1].size) < Abs(old[n].size)
            /\ \A i \in (n + 1)..Len(old) :
                  /\ i - n + kept <= Len(new)
                  /\ new[i - n + kept] = old[i]
    ]_vars

\* C2 witness: one trade closed two tranches opened by different trades, and
\* a younger lot is still open.
C2_Witness ==
    /\ aa.owned # <<>>
    /\ \E i, j \in 1..Len(aa.gains) :
          /\ aa.gains[i].close_meta = aa.gains[j].close_meta
          /\ aa.gains[i].open_meta < aa.gains[j].open_meta
          /\ \A k \in 1..Len(aa.owned) : aa.owned[k].meta > aa.gains[j].open_meta
                                         /\ aa.owned[k].meta < aa.gains[j].close_meta

\* The signed sizes of the trades processed so far
LoggedSizes == [i \in 1..Len(aa_log) |-> aa_log[i].size]

\* C3 (quantity conservation): after each trade, quantity() is the sum of the
\* signed sizes of all trades processed so far.
C3_QuantityConservation == aa.quantity = SumSeq(LoggedSizes)

\* C3 witness: buys and sells were processed and the position is short.
C3_Witness ==
    /\ Len(aa_log) >= 3
    /\ \E i, j \in 1..Len(aa_log) : aa_log[i].size > 0 /\ aa_log[j].size < 0
    /\ aa.quantity < 0

----------------------------------------------------------------------------
(* Claims about the market data, checked under SpecAsset *)

IsCall(r, ops) == r.op \in ops

\* C4 (no look-ahead): for every as_of on or after the first date of the
\* series, with d the latest date <= as_of, get_censored returns exactly the
\* rows dated strictly before d; before the open the open price is None, and
\* after the open the price returned is the open of d and nothing else of d.
C4_NoLookAhead ==
    (IsCall(ta_ret, {"get_censored"}) /\ \E x \in DOMAIN ta : x <= ta_ret.dt) =>
        LET d == MaxOf({x \in DOMAIN ta : x <= ta_ret.dt})
            r == ta_ret.ret
        IN  /\ r.exc = NoExc
            /\ DOMAIN r.rows = {x \in DOMAIN ta : x < d}
            /\ \A x \in DOMAIN r.rows : r.rows[x] = ta[x]
            /\ ta_ret.after_open => r.open_price = Some(ta[d].open)
            /\ ~ ta_ret.after_open => r.open_price = None

\* C4 witness: a query after the open, on a date later than the last bar,
\* that returned a non-empty prefix.
C4_Witness ==
    /\ IsCall(ta_ret, {"get_censored"})
    /\ ta_ret.after_open
    /\ ta_ret.dt \notin DOMAIN ta
    /\ ta_ret.ret.exc = NoExc
    /\ DOMAIN ta_ret.ret.rows # {}

\* The price of the auction a limit order was matched against
HistoricalAuctionPrice ==
    IF ta_ret.op = "limit_on_open" THEN ta[ta_ret.dt].open ELSE ta[ta_ret.dt].close

\* C6 (auction fill condition): on a date that has a bar, a buy at limit P
\* returns a Trade iff the auction price is <= P and a sell iff it is >= P.
C6_FillCondition ==
    (IsCall(ta_ret, {"limit_on_open", "limit_on_close"}) /\ ta_ret.dt \in DOMAIN ta) =>
        /\ ta_ret.ret.exc = NoExc
        /\ ta_ret.is_buy =>
              (ta_ret.ret.trade # None <=> HistoricalAuctionPrice <= ta_ret.price)
        /\ ~ ta_ret.is_buy =>
              (ta_ret.ret.trade # None <=> HistoricalAuctionPrice >= ta_ret.price)

\* C6 witness: a sell on the close whose limit equals the close price filled,
\* on a day whose open is different.
C6_Witness ==
    /\ IsCall(ta_ret, {"limit_on_close"})
    /\ ta_ret.dt \in DOMAIN ta
    /\ ~ ta_ret.is_buy
    /\ ta[ta_ret.dt].close = ta_ret.price
    /\ ta[ta_ret.dt].open # ta_ret.price
    /\ ta_ret.ret.trade # None

\* C7 (full fill at the auction price): every Trade returned has the day's
\* open (close) price and the full requested size, signed by the direction.
C7_FullFillAtAuctionPrice ==
    (IsCall(ta_ret, {"limit_on_open", "limit_on_close"}) /\ ta_ret.ret.trade # None) =>
        /\ ta_ret.dt \in DOMAIN ta
        /\ ta_ret.ret.trade[1].price = HistoricalAuctionPrice
        /\ ta_ret.ret.trade[1].size = IF ta_ret.is_buy THEN ta_ret.size ELSE -1 * ta_ret.size

\* C7 witness: a buy on the close filled below its limit, on a day whose
\* open is different from its close.
C7_Witness ==
    /\ IsCall(ta_ret, {"limit_on_close"})
    /\ ta_ret.is_buy
    /\ ta_ret.ret.trade # None
    /\ ta_ret.ret.trade[1].price < ta_ret.price
    /\ ta[ta_ret.dt].open # ta[ta_ret.dt].close
    /\ ta_ret.size > 1

----------------------------------------------------------------------------
(* Claims about the broker, checked under SpecBroker *)

OrderOps == {"limit_on_open", "limit_on_close"}

\* The net quantity of a symbol: that of its ledger, 0 without a ledger
net_quantity(b, symbol) ==
    IF has_ledger(b, symbol) THEN ledger_of(b, symbol).quantity ELSE 0

\* The signed size of the order that `ret` describes
SignedSize(r) == IF r.is_buy THEN r.size ELSE -1 * r.size

Count(x, seq) == Cardinality({i \in 1..Len(seq) : seq[i] = x})

\* Every gain realized so far is returned by capital_gains() exactly once,
\* and nothing else is returned.
GainsRetrievable ==
    realized # <<>> =>
        /\ capital_gains(broker).exc = NoExc
        /\ Len(capital_gains(broker).rows) = Len(realized)
        /\ \A i \in 1..Len(realized) :
              Count(realized[i], capital_gains(broker).rows) = 1

\* C9 (ledger teardown): a fill that brings a symbol's net quantity to zero
\* removes the symbol's ledger in that same call, so that positions() holds
\* no lot of it, and after every call each gain realized so far, also by
\* ledgers torn down since, is returned by capital_gains() exactly once.
C9_LedgerTeardown ==
    [][ /\ (ret'.op \in OrderOps /\ ret'.trade # None
              /\ net_quantity(broker, ret'.symbol) + ret'.trade[1].size = 0) =>
                /\ ~ has_ledger(broker', ret'.symbol)
                /\ \A i \in 1..Len(positions(broker')) :
                      positions(broker')[i].symbol # ret'.symbol
        /\ GainsRetrievable'
      ]_vars

\* C9 witness: a symbol whose ledger was torn down (its gain is archived)
\* has been traded again and has a new ledger with an open lot.
C9_Witness ==
    \E i \in 1..Len(broker.capital_gains) :
        /\ has_ledger(broker, broker.capital_gains[i].symbol)
        /\ ledger_of(broker, broker.capital_gains[i].symbol).quantity > 0
        /\ ret.op \in OrderOps /\ ret.trade # None

\* C10 (position constraint): with short selling disabled, after every call
\* the net quantity of every symbol is >= 0, and an order whose resulting
\* net position would be negative returns None.
C10_PositionConstraint ==
    [][ ~ broker.allow_short =>
          /\ \A symbol \in Symbols : net_quantity(broker', symbol) >= 0
          /\ (ret'.op \in OrderOps /\ ncalls' # ncalls
                /\ net_quantity(broker, ret'.symbol) + SignedSize(ret') < 0) =>
                  (ret'.exc = NoExc /\ ret'.trade = None)
      ]_vars

\* C10 witness: a broker without short selling holds one share and has
\* just refused a sell of two, at a limit the auction price would clear.
C10_Witness ==
    /\ ~ broker.allow_short
    /\ ret.op \in OrderOps
    /\ ~ ret.is_buy /\ ret.size = 2
    /\ net_quantity(broker, ret.symbol) = 1
    /\ ret.dt \in DOMAIN assets[ret.symbol]
    /\ ret.price <= assets[ret.symbol][ret.dt].open
    /\ ret.price <= assets[ret.symbol][ret.dt].close
    /\ ret.trade = None


----------------------------------------------------------------------------
(* Claims about a whole run, checked under Spec *)

\* The sum over all recorded trades of price * signed size
TradedValue == SumSeq([i \in 1..Len(broker.trades) |->
                          broker.trades[i].price * broker.trades[i].size])

\* The sum of the commissions of all recorded trades
CommissionsPaid == SumSeq([i \in 1..Len(broker.trades) |-> broker.trades[i].commission])

\* The sum of all dividend amounts
DividendsReceived == SumSeq(amounts(broker.dividends))

C8_NoBarNoFill ==
    [][(/\ ncalls' # ncalls
        /\ ret'.op \in {"limit_on_open", "limit_on_close"}
        /\ ret'.exc # "InvalidOrderException"
        /\ ret'.dt \notin DOMAIN assets[ret'.symbol])
       => (/\ ret'.exc = NoExc
           /\ ret'.trade = None
           /\ broker' = broker
           /\ bi' = bi)]_vars

----------------------------------------------------------------------------
(* Claims about two runs that differ in one open price, checked under      *)
(* SpecTwin                                                                *)

\* C5 (the open is not revealed before the open): while pre_open of day d
\* runs, the policy observes the same cash, positions, historical prices,
\* last prices and unreported items in two runs that differ only in an open
\* price of day d.
C5_OpenNotObservable ==
    (market.pc = "pre_open" /\ twin # <<>>) =>
        observations(bi[1], broker, assets)
            = observations(twin[1].f, twin[1].b, twin[1].dfs)

----------------------------------------------------------------------------
(* Claims about the broker's constraints and effects, checked under        *)
(* SpecBroker                                                              *)

\* The step is a call of limit_on_open or limit_on_close, described by ret'
OrderStep == ncalls' # ncalls /\ ret'.op \in OrderOps

\* The cash that would result from the notional of the order `r` (limit
\* price times size, no commission) on a broker b
NotionalCash(b, r) == b.cash - SignedSize(r) * r.price

\* What the matcher answers to the order `r`
MatcherAnswer(r) ==
    handle_auction(assets[r.symbol], r.symbol, r.dt, r.price, r.size, r.is_buy,
                   IF r.op = "limit_on_open" THEN "open" ELSE "close", 0)

\* The order `r` satisfies the position constraint of broker b
PositionAllowed(b, r) ==
    b.allow_short \/ net_quantity(b, r.symbol) + SignedSize(r) >= 0

\* C11 (margin constraint): an order whose notional would take the cash
\* below -margin returns None; an order that satisfies the position
\* constraint and whose notional leaves the cash >= -margin gets the answer
\* of the matcher (no fill exactly when the matcher gives none, else a fill
\* at the matcher's price and size); and after every fill the cash before
\* commission is >= -margin, so >= 0 with margin 0.
C11_MarginConstraint ==
    [][OrderStep =>
        /\ NotionalCash(broker, ret') < -1 * broker.margin =>
              (ret'.exc = NoExc /\ ret'.trade = None)
        /\ (PositionAllowed(broker, ret')
              /\ NotionalCash(broker, ret') >= -1 * broker.margin) =>
              /\ ret'.exc = MatcherAnswer(ret').exc
              /\ (ret'.trade = None) = (MatcherAnswer(ret').trade = None)
              /\ ret'.trade # None =>
                    /\ ret'.trade[1].price = MatcherAnswer(ret').trade[1].price
                    /\ ret'.trade[1].size = MatcherAnswer(ret').trade[1].size
        /\ ret'.trade # None =>
              broker'.cash + ret'.trade[1].commission >= -1 * broker.margin
      ]_vars

\* C11 witness: a buy that the position constraint allows and the auction
\* price would clear has been refused because its notional exceeds the cash
\* plus the margin, after an earlier buy has spent cash.
C11_Witness ==
    /\ ret.op \in OrderOps
    /\ ret.is_buy
    /\ ret.exc = NoExc /\ ret.trade = None
    /\ MatcherAnswer(ret).trade # None
    /\ NotionalCash(broker, ret) < -1 * broker.margin
    /\ broker.cash < initial_cash

----------------------------------------------------------------------------
(* Claims about orders placed through the facade, checked under Spec *)

\* The order `r` was accepted by the facade (its phase matches its kind)
Accepted(r) == r.op \in OrderOps /\ r.exc # "InvalidOrderException"

\* The price of the auction the order `r` names, read from the price bars
BarPrice(r) ==
    IF r.op = "limit_on_open" THEN assets[r.symbol][r.dt].open
    ELSE assets[r.symbol][r.dt].close

\* The auction price of the order `r` does not clear its limit
LimitNotCleared(r) ==
    /\ r.dt \in DOMAIN assets[r.symbol]
    /\ IF r.is_buy THEN BarPrice(r) > r.price ELSE BarPrice(r) < r.price

\* The order `r` cannot fill on broker b: the position constraint or the
\* margin constraint rejects it, or the auction does not clear its limit
CannotFill(b, r) ==
    \/ ~ PositionAllowed(b, r)
    \/ NotionalCash(b, r) < -1 * b.margin
    \/ LimitNotCleared(r)

\* C12 (no fill, no effect): an order that the position constraint or the
\* margin constraint rejects, or whose limit the auction price does not
\* clear, returns None without error and leaves the cash, the recorded
\* trades, the open lots, the realized gains, the dividends and the buffer
\* of unreported items as they were.
C12_NoFillNoEffect ==
    [][(OrderStep /\ Accepted(ret') /\ CannotFill(broker, ret')) =>
        /\ ret'.exc = NoExc
        /\ ret'.trade = None
        /\ broker'.cash = broker.cash
        /\ broker'.trades = broker.trades
        /\ positions(broker') = positions(broker)
        /\ capital_gains(broker') = capital_gains(broker)
        /\ broker'.dividends = broker.dividends
        /\ bi'[1].trades_to_report = bi[1].trades_to_report
      ]_vars

\* C12 witness: right after a fill that is still unreported, an order that
\* both constraints allow has not filled because the auction price does not
\* clear its limit.
C12_Witness ==
    /\ Accepted(ret)
    /\ ret.exc = NoExc /\ ret.trade = None
    /\ PositionAllowed(broker, ret)
    /\ NotionalCash(broker, ret) >= -1 * broker.margin
    /\ LimitNotCleared(ret)
    /\ bi[1].trades_to_report # <<>>
    /\ positions(broker) # <<>>

\* The order `r` is of the wrong kind for the callback that is running
WrongPhase(r) ==
    \/ market.pc = "pre_open" /\ r.op = "limit_on_close"
    \/ market.pc = "pre_close" /\ r.op = "limit_on_open"

\* C13 (phase enforcement): a close-auction order in pre_open and an
\* open-auction order in pre_close raise InvalidOrderException and change
\* neither the broker nor the facade; an order of the matching kind is not
\* refused for its phase and goes to the broker for the day of the callback:
\* it fills when nothing prevents it, and a fill carries that day, that
\* auction and that auction's price.
C13_PhaseEnforcement ==
    [][OrderStep =>
        /\ WrongPhase(ret') =>
              /\ ret'.exc = "InvalidOrderException"
              /\ ret'.trade = None
              /\ broker' = broker
              /\ bi' = bi
        /\ ~ WrongPhase(ret') =>
              /\ ret'.exc # "InvalidOrderException"
              /\ ret'.dt = market.dt
              /\ (ret'.dt \in DOMAIN assets[ret'.symbol]
                    /\ ~ CannotFill(broker, ret')) => ret'.trade # None
              /\ ret'.trade # None =>
                    /\ ret'.trade[1].date =
                          dt_report(market.dt, IF market.pc = "pre_open"
                                               THEN "open" ELSE "close")
                    /\ ret'.trade[1].price = BarPrice(ret')
      ]_vars

\* C13 witness: in pre_open of a day on which the broker already holds a
\* lot, a close-auction order that would otherwise fill has been refused.
C13_Witness ==
    /\ market.pc = "pre_open"
    /\ ret.op = "limit_on_close"
    /\ ret.exc = "InvalidOrderException"
    /\ ret.dt \in DOMAIN assets[ret.symbol]
    /\ ~ CannotFill(broker, ret)
    /\ positions(broker) # <<>>

\* The step enters a callback of the strategy
CallbackEntered == market'.pc \in {"pre_open", "pre_close"} /\ market'.pc # market.pc

\* C14 (report once): every fill joins the unreported items when it is
\* made; the callback that follows the phase of the fill is handed all
\* items still unreported, which are then no longer unreported; and when
\* run() returns no fill is left unreported, so that also the fills of
\* pre_close of the last day have been handed over.
C14_ReportOnce ==
    [][/\ (OrderStep /\ ret'.trade # None) =>
              bi'[1].trades_to_report = Append(bi[1].trades_to_report, ret'.trade[1])
       /\ CallbackEntered =>
              /\ market'.handed = bi[1].trades_to_report
              /\ bi'[1].trades_to_report = <<>>
       /\ market'.pc = "done" => bi[1].trades_to_report = <<>>
      ]_vars

MinOf(S) == CHOOSE x \in S : \A y \in S : x <= y

\* The elements of a set of days in ascending order
RECURSIVE Ascending(_)
Ascending(S) == IF S = {} THEN <<>> ELSE <<MinOf(S)>> \o Ascending(S \ {MinOf(S)})

\* The business days from start_date to end_date inclusive, in ascending order
BusinessDays ==
    Ascending({d \in market.start_date..market.end_date : weekday(d) < 5})

\* pre_open and then pre_close for each of the first n business days, the
\* facade set to the day, before the open and after the open
ExpectedVisits(n) ==
    [i \in 1..(2 * n) |->
        IF i % 2 = 1
        THEN [callback |-> "pre_open", dt |-> BusinessDays[(i + 1) \div 2],
              bi_dt |-> BusinessDays[(i + 1) \div 2], after_open |-> FALSE]
        ELSE [callback |-> "pre_close", dt |-> BusinessDays[i \div 2],
              bi_dt |-> BusinessDays[i \div 2], after_open |-> TRUE]]

\* The run has ended with an exception that no call of the policy raised
DriverFailed == market.pc = "aborted" /\ ret.op = "set_date"

\* C15 (day stepping): the calls of the strategy made so far are always the
\* first calls of the list pre_open, pre_close of each business day from
\* start_date to end_date in ascending order, with the facade on that day
\* in before-open and after-open mode; when run() has returned they are the
\* whole list; and run() itself never fails before the list is complete.
C15_DayStepping ==
    /\ Len(market.visits) <= 2 * Len(BusinessDays)
    /\ market.visits = SubSeq(ExpectedVisits(Len(BusinessDays)), 1, Len(market.visits))
    /\ market.pc = "done" => Len(market.visits) = 2 * Len(BusinessDays)
    /\ ~ DriverFailed

----------------------------------------------------------------------------
(* Claims about dividends and commissions, checked under SpecBroker *)

\* The cash dividend of the bar of `symbol` for the date dt, 0 without a bar
DividendOn(symbol, dt) ==
    IF dt \in DOMAIN assets[symbol] THEN assets[symbol][dt].divCash ELSE 0

\* The open lots of broker b that a dividend run for dt pays
PaidLots(b, dt) ==
    LET pays(lot) == DividendOn(lot.symbol, dt) # 0
    IN  SelectSeq(positions(b), pays)

\* C16 (dividend application): execute_dividends(dt) changes the cash by
\* the sum, over the open lots of symbols whose bar for dt has a non-zero
\* cash dividend, of dividend per share times lot size; it appends one
\* distribution record per such lot, with shares = lot size, amount =
\* dividend times shares and ex_date = dt; it changes nothing else, and
\* nothing at all when there is no such lot.
C16_DividendApplication ==
    [][(ncalls' # ncalls /\ ret'.op = "execute_dividends") =>
        LET paid == PaidLots(broker, ret'.dt)
            n == Len(broker.dividends)
        IN  /\ broker'.cash = broker.cash
                  + SumSeq([i \in 1..Len(paid) |->
                              DividendOn(paid[i].symbol, ret'.dt) * paid[i].size])
            /\ Len(broker'.dividends) = n + Len(paid)
            /\ SubSeq(broker'.dividends, 1, n) = broker.dividends
            /\ \A i \in 1..Len(paid) :
                  /\ broker'.dividends[n + i].symbol = paid[i].symbol
                  /\ broker'.dividends[n + i].shares = paid[i].size
                  /\ broker'.dividends[n + i].div_per_share
                        = DividendOn(paid[i].symbol, ret'.dt)
                  /\ broker'.dividends[n + i].amount
                        = DividendOn(paid[i].symbol, ret'.dt) * paid[i].size
                  /\ broker'.dividends[n + i].ex_date = ret'.dt
            /\ broker' = [broker EXCEPT !.cash = broker'.cash,
                                        !.dividends = broker'.dividends]
            /\ paid = <<>> => broker' = broker
      ]_vars

\* C16 witness: a dividend run has just paid two open lots of one symbol
C16_Witness ==
    /\ ret.op = "execute_dividends"
    /\ Len(broker.dividends) = 2
    /\ Len(positions(broker)) = 2
    /\ \A i \in 1..2 :
          /\ broker.dividends[i].ex_date = ret.dt
          /\ broker.dividends[i].amount > 0
          /\ broker.dividends[i].meta = positions(broker)[i].meta

----------------------------------------------------------------------------
(* Claims about the commission, checked under SpecCommission *)

\* C17 (discount-broker commission): for size s and price p the discount
\* broker charges the smaller of max(1.00, 0.005 * |s|) and 1% of |s| * p:
\* never more than either, always one of them, and the same for a buy and a
\* sell of the same |s| and p; the default broker charges 0.
C17_Commission ==
    ret.op = "commission" =>
        IF broker.class = "InteractiveBrokers"
        THEN /\ 100 * ret.value <= Abs(ret.size) * ret.price
             /\ ret.value <= Max(10000, 50 * Abs(ret.size))
             /\ \/ 100 * ret.value = Abs(ret.size) * ret.price
                \/ ret.value = Max(10000, 50 * Abs(ret.size))
             /\ \A is_buy \in BOOLEAN :
                   /\ commission(broker, ret.price, ret.size, is_buy) = ret.value
                   /\ commission(broker, ret.price, -1 * ret.size, is_buy) = ret.value
        ELSE ret.value = 0

\* C17 witness: the discount broker has charged 1.75 for a sell of 350
\* shares at 17.54, the half cent per share being above the minimum of 1.00
\* and below 1% of the notional.
C17_Witness ==
    /\ broker.class = "InteractiveBrokers"
    /\ ret.op = "commission"
    /\ ret.size = -350 /\ ret.price = 175400 /\ ~ ret.is_buy
    /\ ret.value = 17500

----------------------------------------------------------------------------
(* Claims about stock splits, checked under Spec *)

\* The product of the split factors of the bars of `symbol` for the days
\* after `day`, up to the end of the run
RECURSIVE SplitsAfter(_, _)
SplitsAfter(symbol, day) ==
    IF day >= market.end_date THEN 1
    ELSE (IF day + 1 \in DOMAIN assets[symbol]
          THEN assets[symbol][day + 1].splitFactor ELSE 1)
           * SplitsAfter(symbol, day + 1)

\* The shares of `symbol` the recorded trades amount to at the end of the
\* run, each trade counted in shares as they are after the later splits
SplitAdjustedQuantity(symbol) ==
    SumSeq([i \in 1..Len(broker.trades) |->
              IF broker.trades[i].symbol = symbol
              THEN broker.trades[i].size
                     * SplitsAfter(symbol, broker.trades[i].date.day)
              ELSE 0])

\* C18 (stock split): when run() has returned, the shares held of every
\* symbol are the shares traded, those traded before a day whose bar has
\* splitFactor f multiplied by f (a lot of 1 held across a split of 2 is a
\* lot of 2), and the cash is what the trades and dividends alone make it.
C18_StockSplit ==
    market.pc = "done" =>
        /\ \A symbol \in Symbols :
              net_quantity(broker, symbol) = SplitAdjustedQuantity(symbol)
        /\ initial_cash = broker.cash + TradedValue + CommissionsPaid - DividendsReceived

----------------------------------------------------------------------------
(* Claims about rejected trades on the ledger, checked under SpecLedger *)

\* C19 (zero-size trade): in every state of the ledger a buy or a sell of
\* size 0 raises the assertion error of __do_trade and returns the ledger
\* as it was; and the call that raised it has left the net quantity, the
\* lot queue and the realized gains unchanged.
C19_ZeroSizeTrade ==
    [][/\ \A price \in LedgerPrices :
             /\ buy(aa, price, 0, 0) = [aa |-> aa, exc |-> "AssertionError"]
             /\ sell(aa, price, 0, 0) = [aa |-> aa, exc |-> "AssertionError"]
       /\ aa_ret' = "AssertionError" =>
             /\ aa'.quantity = aa.quantity
             /\ aa'.owned = aa.owned
             /\ aa'.gains = aa.gains
             /\ aa_log' = aa_log
      ]_vars

\* C19 witness: a trade of size 0 has just failed on a ledger that holds a
\* lot and has realized a gain.
C19_Witness ==
    /\ aa_ret = "AssertionError"
    /\ aa.owned # <<>>
    /\ aa.gains # <<>>
    /\ aa.quantity # 0

----------------------------------------------------------------------------
(* Claims about trades of another symbol, checked under SpecRecord *)

\* C20 (symbol mismatch): in every state of the ledger a trade of another
\* symbol raises the symbol-mismatch error and returns the ledger as it
\* was; the call that raised it has changed nothing; and every lot and
\* every realized gain of the ledger carries the ledger's symbol.
C20_SymbolMismatch ==
    [][/\ \A price \in LedgerPrices, size \in LedgerSizes,
             symbol \in RecordSymbols \ {aa.symbol} :
             record_trade(aa, Trade(price, size, symbol, dt_report(0, "open"), 0, 0))
               = [aa |-> aa, exc |-> "SymbolMismatchError"]
       /\ aa_ret' = "SymbolMismatchError" => (aa' = aa /\ aa_log' = aa_log)
       /\ \A i \in 1..Len(aa'.owned) : aa'.owned[i].symbol = aa'.symbol
       /\ \A i \in 1..Len(aa'.gains) : aa'.gains[i].symbol = aa'.symbol
      ]_vars

\* C20 witness: a trade of another symbol has just been refused by a ledger
\* that holds a lot and has realized a gain.
C20_Witness ==
    /\ aa_ret = "SymbolMismatchError"
    /\ aa.owned # <<>>
    /\ aa.gains # <<>>

----------------------------------------------------------------------------
(* Claims about queries before the first bar, checked under SpecAsset *)

\* C21 (as_of before the first date): a query of the censored view for a
\* date that precedes every date of the series fails, before the open and
\* after the open alike, and returns neither rows nor a price.
C21_OutOfRange ==
    (IsCall(ta_ret, {"get_censored"}) /\ \A x \in DOMAIN ta : ta_ret.dt < x) =>
        /\ ta_ret.ret.exc # NoExc
        /\ DOMAIN ta_ret.ret.rows = {}
        /\ ta_ret.ret.open_price = None

----------------------------------------------------------------------------
(* Claims about the broker's queries and its map of ledgers, checked under *)
(* SpecBroker                                                              *)

QueryOps == {"positions", "capital_gains", "trades", "dividends"}

\* C22 (accumulation queries): positions(), capital_gains(), trades() and
\* dividends() can be called in every state of the broker, also before any
\* trade, gain or dividend exists: the call raises nothing, leaves the
\* broker as it was and returns everything accumulated so far (every
\* recorded trade, every dividend record, every gain realized so far once).
C22_AccumulationQueries ==
    [][(ncalls' # ncalls /\ ret'.op \in QueryOps) =>
        /\ ret'.exc = NoExc
        /\ broker' = broker
        /\ ret'.op = "trades" => ret'.rows = broker.trades
        /\ ret'.op = "dividends" => ret'.rows = broker.dividends
        /\ ret'.op = "positions" =>
              Len(ret'.rows) = SumSeq([i \in 1..Len(broker.asset_accounting) |->
                                        Len(broker.asset_accounting[i].owned)])
        /\ ret'.op = "capital_gains" =>
              /\ Len(ret'.rows) = Len(realized)
              /\ \A i \in 1..Len(realized) : Count(realized[i], ret'.rows) = 1
      ]_vars

----------------------------------------------------------------------------
(* Further claims about the ledger, checked under SpecLedger *)

\* The signed sizes of the lots in the queue
LotSizes == [i \in 1..Len(aa.owned) |-> aa.owned[i].size]

\* C23 (lot-sum invariant): after every trade of any sequence of non-zero
\* trades, the signed sizes of the lots in the queue add up to quantity().
C23_LotSum == SumSeq(LotSizes) = aa.quantity

\* C23 witness: lots were closed, short lots among them, and the position is
\* short and held in two lots.
C23_Witness ==
    /\ Len(aa.owned) >= 2
    /\ aa.quantity < 0
    /\ Len(aa.gains) >= 2
    /\ \E i \in 1..Len(aa.gains) : aa.gains[i].size < 0

\* The sizes of the gains the last step realized
NewGainSizes == [j \in 1..Len(NewGains) |-> NewGains[j].size]

\* The absolute sizes of the gains the last step realized
NewGainAbsSizes == [j \in 1..Len(NewGains) |-> Abs(NewGains[j].size)]

\* C24 (closed sizes of one trade): a trade of signed size s against a
\* position of the opposite sign realizes gains whose sizes add up, in
\* absolute value, to |s| when |s| <= |quantity| and opens no lot; when
\* |s| > |quantity| they add up to the previous |quantity|, every old lot is
\* closed, and the queue is exactly one new lot of size s + quantity at the
\* trade's price.
C24_ClosedSizes ==
    [][(aa_log' # aa_log /\ aa.quantity # 0
          /\ sign(aa_log'[Len(aa_log')].size) # sign(aa.quantity)) =>
        LET t == aa_log'[Len(aa_log')]
        IN  /\ Abs(t.size) <= Abs(aa.quantity) =>
                 /\ Abs(SumSeq(NewGainSizes)) = Abs(t.size)
                 /\ SumSeq(NewGainAbsSizes) = Abs(t.size)
                 /\ \A i \in 1..Len(aa'.owned) :
                        \E k \in 1..Len(aa.owned) : aa'.owned[i].meta = aa.owned[k].meta
            /\ Abs(t.size) > Abs(aa.quantity) =>
                 /\ Abs(SumSeq(NewGainSizes)) = Abs(aa.quantity)
                 /\ SumSeq(NewGainAbsSizes) = Abs(aa.quantity)
                 /\ Len(NewGains) = Len(aa.owned)
                 /\ Len(aa'.owned) = 1
                 /\ aa'.owned[1].size = t.size + aa.quantity
                 /\ aa'.owned[1].price = t.price
                 /\ aa'.owned[1].meta = Len(aa_log')
    ]_vars

\* C24 witness: a reducing trade closed one lot in full and a second one in
\* part, and the next trade flipped the position: it closed the rest of the
\* second lot and opened the only lot now in the queue.
C24_Witness ==
    /\ Len(aa_log) = 4
    /\ Len(aa.owned) = 1
    /\ aa.owned[1].meta = 4
    /\ \E i, j \in 1..Len(aa.gains) :
          /\ i < j
          /\ aa.gains[i].close_meta = 3 /\ aa.gains[j].close_meta = 3
          /\ aa.gains[i].open_meta = 1 /\ aa.gains[j].open_meta = 2
    /\ \E i \in 1..Len(aa.gains) :
          aa.gains[i].close_meta = 4 /\ aa.gains[i].open_meta = 2
    /\ sign(aa.owned[1].size) = sign(aa_log[4].size)

\* C25 (size of a realized gain): every gain a trade realizes has a strictly
\* positive size that is at most the absolute size of the lot it closed,
\* whether a sell closes long lots or a buy closes short lots.
C25_PositiveGainSize ==
    [][aa_log' # aa_log =>
        \A j \in 1..Len(NewGains) :
            /\ j <= Len(aa.owned)
            /\ NewGains[j].size > 0
            /\ NewGains[j].size <= Abs(aa.owned[j].size)
    ]_vars

----------------------------------------------------------------------------
(* Further claims about the broker *)

\* C26 (ledger map): after every broker operation the symbol-to-ledger map
\* holds one ledger per symbol and only ledgers of non-zero quantity; an
\* order that is rejected or not filled on a symbol without a position
\* leaves no ledger behind.
C26_LedgerMap ==
    /\ \A i \in 1..Len(broker.asset_accounting) :
          broker.asset_accounting[i].quantity # 0
    /\ \A i, j \in 1..Len(broker.asset_accounting) :
          broker.asset_accounting[i].symbol = broker.asset_accounting[j].symbol => i = j

Rejected(b, r) ==
    \/ ~ PositionAllowed(b, r)
    \/ NotionalCash(b, r) < -1 * b.margin

\* C28 (constraint checks precede matching): an order that violates the
\* position or the margin constraint returns None without an error and
\* without a fill, whatever the auction price is and also on a date for which
\* the symbol has no price bar (where the matcher would fail): its outcome
\* depends on nothing the matcher reads.
C28_ChecksBeforeMatching ==
    [][(OrderStep /\ Rejected(broker, ret')) =>
        /\ ret'.exc = NoExc
        /\ ret'.trade = None
        /\ broker'.cash = broker.cash
        /\ broker'.trades = broker.trades
        /\ net_quantity(broker', ret'.symbol) = net_quantity(broker, ret'.symbol)
    ]_vars

\* C28 witness: an order for a date on which its symbol has no price bar was
\* rejected by a constraint and returned None; the matcher would have raised.
C28_Witness ==
    /\ ret.op \in OrderOps
    /\ ret.dt \notin DOMAIN assets[ret.symbol]
    /\ MatcherAnswer(ret).exc # NoExc
    /\ Rejected(broker, ret)
    /\ ret.exc = NoExc /\ ret.trade = None

----------------------------------------------------------------------------
(* Further claims about the driver, checked under Spec *)

\* The step is the before-open transition of day market.dt: the driver
\* calls set_date(dt, False), which returns or raises
DayStarted == market.pc = "loop" /\ market'.pc \in {"pre_open", "aborted"}

\* C29 (dividend timing): in a run of the driver the dividends of each day
\* are applied in the before-open transition of that day, once, to the lots
\* open at that moment, all of them opened on earlier days, and before any
\* trade of that day exists; no other step (the after-open transition, an
\* order, the end of the day) changes the dividend records, and the
\* after-open transition leaves the cash alone; so every record has an
\* ex_date later than the day its lot was opened, and no lot has two records
\* for one ex_date.
C29_DividendTiming ==
    [][/\ DayStarted =>
            LET paid == PaidLots(broker, market.dt)
                n == Len(broker.dividends)
            IN  /\ Len(broker'.dividends) = n + Len(paid)
                /\ SubSeq(broker'.dividends, 1, n) = broker.dividends
                /\ \A i \in 1..Len(paid) :
                      /\ broker'.dividends[n + i].meta = paid[i].meta
                      /\ broker'.dividends[n + i].symbol = paid[i].symbol
                      /\ broker'.dividends[n + i].ex_date = market.dt
                      /\ broker'.dividends[n + i].amount
                            = DividendOn(paid[i].symbol, market.dt) * paid[i].size
                      /\ paid[i].meta.date.day < market.dt
                /\ broker'.cash = broker.cash
                      + SumSeq([i \in 1..Len(paid) |->
                                  DividendOn(paid[i].symbol, market.dt) * paid[i].size])
                /\ \A i \in 1..Len(broker.trades) :
                      broker.trades[i].date.day < market.dt
       /\ ~ DayStarted => broker'.dividends = broker.dividends
       /\ (market.pc = "pre_open" /\ market'.pc # "pre_open") =>
            broker'.cash = broker.cash
       /\ \A i \in 1..Len(broker'.dividends) :
            /\ broker'.dividends[i].ex_date > broker'.dividends[i].meta.date.day
            /\ \A j \in 1..Len(broker'.dividends) :
                  (/\ broker'.dividends[i].meta = broker'.dividends[j].meta
                   /\ broker'.dividends[i].symbol = broker'.dividends[j].symbol
                   /\ broker'.dividends[i].ex_date = broker'.dividends[j].ex_date) => i = j
    ]_vars

\* The gains the last step realized, as the step logged them
NewRealized == SubSeq(realized', Len(realized) + 1, Len(realized'))

\* What the ledger keeps of the trade t: its tag, its timestamp and its
\* commission spread over its shares
Attached(meta, t) ==
    /\ meta.tag = t.meta
    /\ meta.date = t.date
    /\ meta.commission_per_share = <<t.commission, Abs(t.size)>>

----------------------------------------------------------------------------
(* Claims about the attribution of commissions, checked under SpecBroker *)

\* The elements of a sequence
Range(seq) == {seq[i] : i \in 1..Len(seq)}

\* The recorded trade of broker b that carries the tag `tag`
TradeTagged(b, tag) == CHOOSE t \in Range(b.trades) : t.meta = tag

\* The fraction f = <<numerator, denominator>> is commission c divided by n
IsPerShare(f, c, n) == f[2] # 0 /\ n # 0 /\ f[1] * n = c * f[2]

\* The fraction f is the net gain of `size` shares opened by trade to and
\* closed by trade tc: (close price - open price - the closing trade's
\* commission per share - the opening trade's commission per share) * size
IsNetGain(f, to, tc, size) ==
    LET no == Abs(to.size)
        nc == Abs(tc.size)
    IN  /\ f[2] # 0
        /\ f[1] * no * nc
             = f[2] * ((tc.price - to.price) * no * nc
                         - tc.commission * no - to.commission * nc) * size

\* C31 (per-share commission attribution): every open lot carries the price
\* of the trade that opened it and, as commission per share, that trade's
\* total commission divided by its absolute size; an order that fills
\* leaves every lot it does not open with the price, commission per share
\* and metadata it had, a partial close changing the size only; and the
\* gain that capital_gains() reports for a realized gain is (close price -
\* open price - closing commission per share - opening commission per
\* share) * size, with the commissions of the two trades.
C31_CommissionAttribution ==
    [][/\ \A i \in 1..Len(positions(broker')) :
            LET lot == positions(broker')[i]
                t == TradeTagged(broker', lot.meta.tag)
            IN  /\ \E u \in Range(broker'.trades) : u.meta = lot.meta.tag
                /\ lot.price = t.price
                /\ lot.meta.date = t.date
                /\ IsPerShare(lot.meta.commission_per_share, t.commission, Abs(t.size))
       /\ (OrderStep /\ ret'.trade # None) =>
            \A i \in 1..Len(positions(broker')) :
               LET lot == positions(broker')[i]
               IN  lot.meta.tag # ret'.trade[1].meta =>
                     \E k \in 1..Len(positions(broker)) :
                        /\ positions(broker)[k].meta = lot.meta
                        /\ positions(broker)[k].price = lot.price
                        /\ positions(broker)[k].symbol = lot.symbol
                        /\ Abs(lot.size) <= Abs(positions(broker)[k].size)
       /\ (ncalls' # ncalls /\ ret'.op = "capital_gains" /\ ret'.exc = NoExc) =>
            /\ Len(ret'.gain) = Len(ret'.rows)
            /\ \A i \in 1..Len(ret'.rows) :
                  LET row == ret'.rows[i]
                  IN  IsNetGain(ret'.gain[i],
                                TradeTagged(broker, row.open_meta.tag),
                                TradeTagged(broker, row.close_meta.tag), row.size)
    ]_vars

\* C31 witness: on the discount broker a lot of two shares was opened, one
\* share of it was closed by a later trade, and capital_gains() has just
\* reported the gain of that share; the remaining lot still carries the
\* opening trade's commission over two shares.
C31_Witness ==
    /\ broker.class = "InteractiveBrokers"
    /\ ret.op = "capital_gains" /\ ret.exc = NoExc
    /\ Len(ret.rows) = 1
    /\ Abs(ret.rows[1].size) = 1
    /\ ret.rows[1].open_meta.commission_per_share[1] > 0
    /\ ret.rows[1].open_meta.commission_per_share[2] = 2
    /\ ret.rows[1].close_meta.commission_per_share[1] > 0
    /\ Len(positions(broker)) = 1
    /\ positions(broker)[1].meta = ret.rows[1].open_meta
    /\ Abs(positions(broker)[1].size) = 1

----------------------------------------------------------------------------
(* A claim about the shape of the lot queue, checked under SpecLedger *)

\* C32 (lots of one sign, none empty): after every trade all the lots of
\* the queue have the same sign and none has size 0; a trade that exactly
\* closes the oldest lot removes it, realizes one gain and opens no lot.
C32_LotSigns ==
    [][aa_log' # aa_log =>
        /\ \A i \in 1..Len(aa'.owned) :
              /\ aa'.owned[i].size # 0
              /\ sign(aa'.owned[i].size) = sign(aa'.owned[1].size)
        /\ (aa.owned # <<>> /\ aa_log'[Len(aa_log')].size = -1 * aa.owned[1].size) =>
              /\ aa'.owned = Tail(aa.owned)
              /\ Len(NewGains) = 1
    ]_vars

\* C32 witness: the third trade exactly closed the oldest of two lots, the
\* younger lot is the whole queue, and the position is short.
C32_Witness ==
    /\ Len(aa_log) = 3
    /\ aa_log[3].size = -1 * aa_log[1].size
    /\ Len(aa.owned) = 1
    /\ aa.owned[1].meta = 2
    /\ aa.owned[1].size < 0
    /\ Len(aa.gains) = 1
    /\ aa.gains[1].open_meta = 1

----------------------------------------------------------------------------
(* A claim about the default broker, checked under SpecDefault *)

\* C33 (cash floor of the default broker): on the broker without
\* commission and without short selling, after every sequence of orders of
\* non-negative size and price and of dividend runs, the cash is not below
\* -margin.
C33_CashFloor == broker.cash >= -1 * broker.margin

\* C33 witness: a buy that filled at its limit price has taken the cash
\* exactly to -margin, after an earlier fill and a dividend.
C33_Witness ==
    /\ ret.op \in OrderOps
    /\ ret.is_buy
    /\ ret.exc = NoExc /\ ret.trade # None
    /\ ret.trade[1].price = ret.price
    /\ broker.cash = -1 * broker.margin
    /\ Len(broker.trades) = 2
    /\ broker.dividends # <<>>

----------------------------------------------------------------------------
(* A claim about brokers constructed without assets, checked under         *)
(* SpecShared                                                               *)

\* The symbols broker b can trade when the default dict is d
Tradeable(b, d) == {symbol \in Symbols : has_asset(b, d, symbol)}

\* The dates that are trading days for broker b
TradingDays(b) == {dt \in Days : trading_day(b, dt)}

\* C34 (brokers are independent): a broker that has just been constructed
\* without an assets argument trades no symbol and has no trading day, and
\* add_asset on a broker constructed without an assets argument leaves the
\* tradeable symbols and the trading days of every other such broker as
\* they were.
C34_BrokersIndependent ==
    [][/\ (ret'.op = "Broker" /\ Len(brokers') > Len(brokers)
             /\ ~ brokers'[Len(brokers')].own) =>
            /\ Tradeable(brokers'[Len(brokers')], default_assets') = {}
            /\ TradingDays(brokers'[Len(brokers')]) = {}
       /\ (ret'.op = "add_asset" /\ Len(brokers') = Len(brokers)
             /\ ~ brokers[ret'.broker].own) =>
            \A j \in 1..Len(brokers) :
               (j # ret'.broker /\ ~ brokers[j].own) =>
                  /\ Tradeable(brokers'[j], default_assets')
                        = Tradeable(brokers[j], default_assets)
                  /\ TradingDays(brokers'[j]) = TradingDays(brokers[j])
    ]_vars

----------------------------------------------------------------------------
(* A claim about the days of the driver, checked under SpecWeekend *)

\* C35 (business days only): the driver calls the policy only for dates
\* from Monday to Friday, also when start_date is a Saturday or a Sunday.
C35_BusinessDaysOnly ==
    \A i \in 1..Len(market.visits) :
        /\ weekday(market.visits[i].dt) < 5
        /\ weekday(market.visits[i].bi_dt) < 5
====
